---- MODULE Spec2Model ----
(***************************************************************************)
(* Verification model of the FleCSPH distributed tree core: the sample     *)
(* sort of mpi_partition.cc, the hashed tree of tree_topology.h and the    *)
(* per-iteration driver of bodies_system.h.                                *)
(***************************************************************************)
EXTENDS Integers, Sequences, FiniteSets, TLC

VARIABLES
  pc,           \* position in the operation being run
  size,         \* MPI_Comm_size
  rbodies,      \* rank -> sequence of [key, id] held by the rank
  input,        \* rank -> the sequence the rank held when the sort was called
  master_keys,  \* the sample keys gathered on rank 0
  splitters,    \* i in 0..size-2 -> splitter key, after the broadcast
  dist,         \* rank -> number of bodies the rank is to hold (psort), or
                \* the element counts of one rank in an all-to-all exchange
  nsorts,       \* number of calls of the sort so far
  smoothinglength_,  \* the largest smoothing length (bodies_system)
  localbodies_,      \* rank -> sequence of the bodies the rank owns
  tree_,             \* rank -> the tree of the rank
  entities_,         \* rank -> the entities_ of the tree (body holders)
  ghosts_data,       \* rank -> the mpi_ghosts_t structure of the rank, or the
                     \* byte counts and displacements a rank gives MPI_Alltoallv
  calls,             \* rank -> the invocations of the kernel callable, or
                     \* the search made last with what it returned
  snapshot,          \* the tree as it was when the last insert was called
  fmm,               \* maxMass and macangle of the gravitation by FMM
  vcells,            \* rank -> the sinks the rank publishes (mpi_exchange_cells)
  recvcells,         \* rank -> the sinks of all ranks, with the rank's contributions
  nrecvcells,        \* rank -> the byte count of the sinks of each rank
  gathercells,       \* rank -> the blocks received in mpi_gather_cells, reduced
  c2p,               \* a sink's accumulators and the bodies they are applied to
  omp,               \* the OpenMP threads and tasks: those in set_adaptive_timestep
                     \* with physics::dt, those of a kernel pass
  lookup,            \* the last lookup of a branch by key and its outcome, or
                     \* the walk of the sub-cells under way
  driver,            \* the main loop: physics::iteration, final_iteration and
                     \* the phases run so far in the simulation step
  trav,              \* the thread-pool traversal under way
  frames,            \* the calls the traversing thread has still to make, or the
                     \* calls of insert and refine_ under way
  tasks,             \* the tasks queued in the thread pool
  sem,               \* the count of the virtual_semaphore
  released           \* the number of sem.release() so far

sortvars == <<rbodies, input, master_keys, splitters, dist, nsorts>>
stepvars ==
  <<smoothinglength_, localbodies_, tree_, entities_, ghosts_data, calls>>
histvars == <<snapshot>>
poolvars == <<trav, frames, tasks, sem, released>>
fmmvars == <<fmm, vcells, recvcells, nrecvcells, gathercells, c2p>>
drivervars == <<omp, driver, lookup>>
vars == <<pc, size, sortvars, stepvars, histvars, poolvars, fmmvars, drivervars>>

\* no gravitation by FMM is under way
FmmIdle ==
  /\ fmm = <<>>
  /\ vcells = <<>>
  /\ recvcells = <<>>
  /\ nrecvcells = <<>>
  /\ gathercells = <<>>
  /\ c2p = <<>>

\* no thread is in set_adaptive_timestep, the main loop is not run
DriverIdle ==
  /\ omp = <<>>
  /\ lookup = <<>>
  /\ driver = <<>>

\* no traversal with a thread pool is under way
PoolIdle ==
  /\ trav = <<>>
  /\ frames = <<>>
  /\ tasks = {}
  /\ sem = 0
  /\ released = 0

\* the tree and ghost state while a sort is modelled on its own
StepIdle ==
  /\ smoothinglength_ = 0
  /\ localbodies_ = <<>>
  /\ tree_ = <<>>
  /\ entities_ = <<>>
  /\ ghosts_data = <<>>
  /\ calls = <<>>
  /\ snapshot = <<>>
  /\ PoolIdle
  /\ FmmIdle
  /\ DriverIdle

(***************************************************************************)
(* Bounds of the model.                                                    *)
(***************************************************************************)
MaxRanks == 3
NBodies == 3
MaxKey == 2

\* the bytes of samples a rank sends to the master: 256*1024 in the code,
\* scaled down so that a rank can hold more bodies than its sample budget
\* noct / sizeof(entity_key_t)
noct == 16

(***************************************************************************)
(* Program constants.                                                      *)
(***************************************************************************)
KeyBytes == 8

Ranks == 0 .. (size - 1)
Ids == 1 .. NBodies
Keys == 0 .. MaxKey

Min(a, b) == IF a < b THEN a ELSE b
Max(a, b) == IF a > b THEN a ELSE b

RECURSIVE SumLen(_, _)
SumLen(f, n) == IF n = 0 THEN 0 ELSE Len(f[n - 1]) + SumLen(f, n - 1)

RECURSIVE Concat(_, _)
\* f[0] \o f[1] \o ... \o f[n-1]
Concat(f, n) == IF n = 0 THEN <<>> ELSE Concat(f, n - 1) \o f[n - 1]

PermsOf(s) ==
  IF Len(s) = 0 THEN {<<>>}
  ELSE {[i \in 1 .. Len(s) |-> s[p[i]]] : p \in Permutations(1 .. Len(s))}

KeyLess(left, right) == left.key < right.key

SortByKeyUnsorted(s) == {s}

\* std::sort by key: any arrangement of s in which no body is placed before
\* one that compares less than it (the sort is not stable)
SortByKey(s) ==
  {p \in PermsOf(s) : \A i, j \in 1 .. Len(s) : i < j => ~KeyLess(p[j], p[i])}

BodyLessNoTie(left, right) == left.key < right.key

BodyLess(left, right) ==
  IF left.key < right.key THEN TRUE
  ELSE IF left.key = right.key THEN left.id < right.id
  ELSE FALSE

\* std::sort with the (key, id) comparator of update_iteration
SortByKeyId(s) ==
  {p \in PermsOf(s) : \A i, j \in 1 .. Len(s) : i < j => ~BodyLess(p[j], p[i])}

RECURSIVE AllChoices(_, _, _, _)
\* every function g on 0..n-1 with g[q] \in opts[q] for q >= r and g[q] = f[q] below
AllChoices(f, opts, r, n) ==
  IF r = n THEN {f}
  ELSE UNION {AllChoices([f EXCEPT ![r] = p], opts, r + 1, n) : p \in opts[r]}

RECURSIVE SortKeys(_)
\* std::sort of a vector of keys (plain integers: one outcome)
SortKeys(s) ==
  IF Len(s) = 0 THEN <<>>
  ELSE LET m == CHOOSE i \in 1 .. Len(s) : \A j \in 1 .. Len(s) : s[i] <= s[j]
           rest == [j \in 1 .. (Len(s) - 1) |-> IF j < m THEN s[j] ELSE s[j + 1]]
       IN <<s[m]>> \o SortKeys(rest)

(***************************************************************************)
(* mpi_sort_unbalanced: sampling                                           *)
(***************************************************************************)
nsample(bodies) ==
  IF Len(bodies) < noct \div KeyBytes THEN Len(bodies) ELSE noct \div KeyBytes

\* keys_sample of one rank; chuncksize = rbodies.size()/nsample
keys_sample(bodies) ==
  LET n == nsample(bodies)
      chuncksize == Len(bodies) \div n
  IN [i \in 1 .. n |-> bodies[chuncksize * (i - 1) + 1].key]

totalnbodies == SumLen(rbodies, size)

master_nkeys == Min((noct \div KeyBytes) * size, totalnbodies)

\* the value of an element master_keys.resize(master_nkeys) adds: a
\* value-initialised entity_key_t, some key (the key class is not among the
\* sources)
DefaultKeys == 0 .. (MaxKey + 1)

\* master_keys after MPI_Gatherv: the samples in rank order, then the
\* elements of the resize that no sample was received into
gathered_keys(samples, nkeys, pad) ==
  samples \o [j \in 1 .. (nkeys - Len(samples)) |-> pad]

\* splitters[i] = master_keys[(i+1)*chuncksize] on the sorted samples
GenSplitters(mkeys, nkeys, n) ==
  LET sorted == SortKeys(mkeys)
      chuncksize == nkeys \div n
  IN [i \in 0 .. (n - 2) |-> sorted[(i + 1) * chuncksize + 1]]

(***************************************************************************)
(* mpi_sort_unbalanced: buckets                                            *)
(***************************************************************************)
\* what a read one past the end of splitters can yield
PastTheEnd == 0 .. (MaxKey + 1)

InBucketDropEqual(i, k, spl, n) ==
  IF i = 0 /\ k < spl[0] THEN TRUE
  ELSE IF i = n - 1 /\ k > spl[n - 2] THEN TRUE
  ELSE IF i = n - 1 THEN FALSE
  ELSE k < spl[i] /\ k >= spl[i - 1]

\* the if / else-if chain of the bucket loop for destination i
InBucket(i, k, spl, n) ==
  IF i = 0 /\ k < spl[0] THEN TRUE
  ELSE IF i = n - 1 /\ k >= spl[n - 2] THEN TRUE
  ELSE IF i = n - 1 THEN \E v \in PastTheEnd : k < v /\ k >= spl[i - 1]
  ELSE k < spl[i] /\ k >= spl[i - 1]

sendcount(bodies, spl, n) ==
  [i \in 0 .. (n - 1) |->
     Cardinality({j \in 1 .. Len(bodies) : InBucket(i, bodies[j].key, spl, n)})]

RECURSIVE PartialSum(_, _)
\* exclusive prefix sum: cnt[0] + ... + cnt[i-1]
PartialSum(cnt, i) == IF i = 0 THEN 0 ELSE PartialSum(cnt, i - 1) + cnt[i - 1]

\* the part of the send buffer MPI_Alltoallv takes for destination i
SendSlice(bodies, cnt, i) ==
  [j \in 1 .. cnt[i] |-> bodies[PartialSum(cnt, i) + j]]

\* the receive buffer of rank r: the slices of ranks 0..n-1 in rank order
recvbuffer(all, spl, n, r) ==
  Concat([q \in 0 .. (n - 1) |-> SendSlice(all[q], sendcount(all[q], spl, n), r)], n)

(***************************************************************************)
(* The sort as a state machine.  Collectives synchronise the ranks, so a   *)
(* step is one phase on all ranks.                                         *)
(***************************************************************************)
RECURSIVE IdSeq(_)
\* the ids of S in increasing order
IdSeq(S) ==
  IF S = {} THEN <<>>
  ELSE LET m == CHOOSE x \in S : \A y \in S : x <= y IN <<m>> \o IdSeq(S \ {m})

\* the bodies as read: body id has key key[id] and sits on rank owner[id]
Distribution(n, key, owner) ==
  [r \in 0 .. (n - 1) |->
     LET mine == IdSeq({id \in Ids : owner[id] = r})
     IN [j \in 1 .. Len(mine) |-> [key |-> key[mine[j]], id |-> mine[j]]]]

InitSort ==
  /\ pc = "sort"
  /\ size \in 1 .. MaxRanks
  /\ \E key \in [Ids -> Keys], owner \in [Ids -> Ranks] :
       rbodies = Distribution(size, key, owner)
  /\ input = rbodies
  /\ master_keys = <<>>
  /\ splitters = <<>>
  /\ dist = <<>>
  /\ nsorts = 1
  /\ StepIdle

\* std::sort(rbodies) by key; a single process is done after it
LocalSort ==
  /\ pc = "sort"
  /\ rbodies' \in AllChoices(rbodies, [r \in Ranks |-> SortByKey(rbodies[r])], 0, size)
  /\ pc' = IF size = 1 THEN "qsorted" ELSE "sample"
  /\ UNCHANGED <<size, nsorts, input, master_keys, splitters, dist>>
  /\ UNCHANGED <<stepvars, histvars, fmmvars, drivervars, poolvars>>

\* a rank without bodies divides by nsample = 0: the process is killed ...
SampleDivByZero ==
  /\ pc = "sample"
  /\ \E r \in Ranks : Len(rbodies[r]) = 0
  /\ pc' = "abort"
  /\ UNCHANGED <<size, nsorts, rbodies, input, master_keys, splitters, dist>>
  /\ UNCHANGED <<stepvars, histvars, fmmvars, drivervars, poolvars>>

\* ... or the quotient is never used (the sample loop runs nsample = 0 times);
\* MPI_Gather / MPI_Gatherv bring the samples to rank 0 in rank order
Sample ==
  /\ pc = "sample"
  /\ \E pad \in DefaultKeys :
       master_keys' =
         gathered_keys(Concat([r \in Ranks |-> keys_sample(rbodies[r])], size),
                       master_nkeys, pad)
  /\ pc' = "splitters"
  /\ UNCHANGED <<size, nsorts, rbodies, input, splitters, dist>>
  /\ UNCHANGED <<stepvars, histvars, fmmvars, drivervars, poolvars>>

\* rank 0 sorts the samples and picks size-1 splitters; MPI_Bcast
Splitters ==
  /\ pc = "splitters"
  /\ splitters' = GenSplitters(master_keys, master_nkeys, size)
  /\ pc' = "bucket"
  /\ UNCHANGED <<size, nsorts, rbodies, input, master_keys, dist>>
  /\ UNCHANGED <<stepvars, histvars, fmmvars, drivervars, poolvars>>

\* sendcount, MPI_Alltoall, MPI_Alltoallv, rbodies = recvbuffer, std::sort by key
Exchange ==
  /\ pc = "bucket"
  /\ LET got == [r \in Ranks |-> recvbuffer(rbodies, splitters, size, r)]
     IN rbodies' \in AllChoices(got, [r \in Ranks |-> SortByKey(got[r])], 0, size)
  /\ pc' = "qsorted"
  /\ UNCHANGED <<size, nsorts, input, master_keys, splitters, dist>>
  /\ UNCHANGED <<stepvars, histvars, fmmvars, drivervars, poolvars>>

\* body_system::update_iteration: std::sort(localbodies_) by (key, id)
SortLocalBodies ==
  /\ pc = "qsorted"
  /\ rbodies' \in AllChoices(rbodies,
                    [r \in Ranks |-> SortByKeyId(rbodies[r])], 0, size)
  /\ pc' = "done"
  /\ UNCHANGED <<size, nsorts, input, master_keys, splitters, dist>>
  /\ UNCHANGED <<stepvars, histvars, fmmvars, drivervars, poolvars>>

NextSort ==
  \/ LocalSort
  \/ SampleDivByZero
  \/ Sample
  \/ Splitters
  \/ Exchange
  \/ SortLocalBodies

SpecSort == InitSort /\ [][NextSort]_vars

\* the sort of 1 to NBodies + 1 bodies on ranks that hold up to one body more
\* than the sample budget of a rank
InitSample ==
  /\ pc = "sort"
  /\ size \in 2 .. MaxRanks
  /\ \E len \in [Ranks -> 0 .. (noct \div KeyBytes + 1)] :
       \E key \in [Ranks -> [1 .. (noct \div KeyBytes + 1) -> Keys]] :
         /\ PartialSum(len, size) \in 1 .. (NBodies + 1)
         /\ \A r \in Ranks : \A j \in 1 .. (noct \div KeyBytes) :
              key[r][j] <= key[r][j + 1] \/ j >= len[r]
         /\ \A r \in Ranks : \A j \in 1 .. (noct \div KeyBytes + 1) :
              j > len[r] => key[r][j] = 0
         /\ rbodies = [r \in Ranks |->
                         [j \in 1 .. len[r] |->
                            [key |-> key[r][j],
                             id |-> PartialSum(len, r) + j]]]
  /\ input = rbodies
  /\ master_keys = <<>>
  /\ splitters = <<>>
  /\ dist = <<>>
  /\ nsorts = 1
  /\ StepIdle

SpecSample == InitSample /\ [][NextSort]_vars

(***************************************************************************)
(* Properties of the distributed sort                                      *)
(***************************************************************************)
Held(f, r) == {f[r][j] : j \in 1 .. Len(f[r])}

AfterSort == pc \in {"qsorted", "done"}

\* C7: after the distributed sort every key held by rank r is less than or
\* equal to every key held by a rank s > r, and each rank's keys are sorted.
C7_KeyContiguous ==
  AfterSort =>
    /\ \A r, s \in Ranks : r < s =>
         \A a \in Held(rbodies, r), b \in Held(rbodies, s) : a.key <= b.key
    /\ \A r \in Ranks : \A i, j \in 1 .. Len(rbodies[r]) :
         i < j => rbodies[r][i].key <= rbodies[r][j].key

\* the sort has run on several ranks whose input was not key-contiguous
C7_Witness ==
  /\ pc = "qsorted"
  /\ size = MaxRanks
  /\ \A r \in Ranks : rbodies[r] # <<>>
  /\ \E r, s \in Ranks : r < s /\
       \E a \in Held(input, r), b \in Held(input, s) : a.key > b.key

\* C8: the sort neither loses nor duplicates a particle: the bodies held over
\* all ranks are those of the input, each by one rank, and the counts sum to
\* the total.
C8_Conservation ==
  AfterSort =>
    /\ UNION {Held(rbodies, r) : r \in Ranks} = UNION {Held(input, r) : r \in Ranks}
    /\ SumLen(rbodies, size) = NBodies
    /\ \A id \in Ids :
         Cardinality({<<r, j>> \in Ranks \X (1 .. NBodies) :
                        j <= Len(rbodies[r]) /\ rbodies[r][j].id = id}) = 1

\* the exchange has moved a body to another rank
C8_Witness ==
  /\ pc = "qsorted"
  /\ size > 1
  /\ \E r, s \in Ranks : r # s /\ Held(input, r) \cap Held(rbodies, s) # {}
  /\ \E r \in Ranks : \E a, b \in Held(rbodies, r) : a.id # b.id /\ a.key = b.key

\* C10: once update_iteration has sorted the local bodies, every rank's
\* sequence is ordered by (key, id).
C10_KeyIdOrder ==
  pc = "done" =>
    \A r \in Ranks : \A i, j \in 1 .. Len(rbodies[r]) :
      i < j => \/ rbodies[r][i].key < rbodies[r][j].key
               \/ /\ rbodies[r][i].key = rbodies[r][j].key
                  /\ rbodies[r][i].id < rbodies[r][j].id

\* a rank ends with two bodies of equal key that came from different ranks
C10_Witness ==
  /\ pc = "done"
  /\ size > 1
  /\ \E r \in Ranks : \E a, b \in Held(rbodies, r) :
       /\ a.id # b.id /\ a.key = b.key
       /\ \E q \in Ranks : a \in Held(input, q) /\ b \notin Held(input, q)


(***************************************************************************)
(* psort::psort(bodies, comp, dist): the sort with a target distribution   *)
(* that mpi_qsort.cc tests.  Its implementation is not among the sources;  *)
(* it is modelled from the specification of the distributed sort (each     *)
(* rank ends with a contiguous segment of the globally sorted sequence,    *)
(* of the size asked for).                                                 *)
(***************************************************************************)
RECURSIVE SortBodies(_)
\* the bodies of S ordered by comp = (key, id); ids are distinct
SortBodies(S) ==
  IF S = {} THEN <<>>
  ELSE LET m == CHOOSE x \in S : \A y \in S \ {x} : BodyLess(x, y)
       IN <<m>> \o SortBodies(S \ {m})

\* the slices are cut from the gathered, unsorted bodies
psortUnsorted(all, n, d) ==
  LET gathered == Concat(all, n)
  IN [r \in 0 .. (n - 1) |-> [j \in 1 .. d[r] |-> gathered[PartialSum(d, r) + j]]]

psort(all, n, d) ==
  LET sorted == SortBodies(UNION {Held(all, r) : r \in 0 .. (n - 1)})
  IN [r \in 0 .. (n - 1) |-> [j \in 1 .. d[r] |-> sorted[PartialSum(d, r) + j]]]

\* mpi_task: totalnbodies/size each, the last rank takes the rest
targetnbodies(n) ==
  [i \in 0 .. (n - 1) |->
     IF i # n - 1 THEN NBodies \div n ELSE NBodies - (n - 1) * (NBodies \div n)]

InitPsort ==
  /\ pc = "psort"
  /\ size \in 1 .. MaxRanks
  /\ \E key \in [Ids -> Keys], owner \in [Ids -> Ranks] :
       rbodies = Distribution(size, key, owner)
  /\ input = rbodies
  /\ master_keys = <<>>
  /\ splitters = <<>>
  \* the test asks for the sizes the ranks start with, mpi_task for even ones
  /\ dist \in {[r \in Ranks |-> Len(rbodies[r])], targetnbodies(size)}
  /\ nsorts = 1
  /\ StepIdle

Psort ==
  /\ pc = "psort"
  /\ rbodies' = psort(rbodies, size, dist)
  /\ pc' = "psorted"
  /\ UNCHANGED <<size, nsorts, input, master_keys, splitters, dist>>
  /\ UNCHANGED <<stepvars, histvars, fmmvars, drivervars, poolvars>>

NextPsort == Psort

SpecPsort == InitPsort /\ [][NextPsort]_vars

\* the number of bodies ordered before b by (key, id) in the whole input
RankOf(b) ==
  Cardinality({c \in UNION {Held(input, r) : r \in Ranks} : BodyLess(c, b)})

dimension == 1
\* branch policy: a leaf asks for refinement above this number of entities
MaxLeaf == 2
\* stands for DBL_MAX in the bounding-box accumulation
DBL_MAX == 1000000

RECURSIVE Pow2(_)
Pow2(n) == IF n = 0 THEN 1 ELSE 2 * Pow2(n - 1)

\* branch_t::num_children = 1 << dimension
num_children == Pow2(dimension)

\* branch_id_t::root()
root_id == 1

RECURSIVE id_depth(_)
\* branch_id::depth()
id_depth(bid) == IF bid = root_id THEN 0 ELSE 1 + id_depth(bid \div 2)

push(bid, i) == bid * 2 + i
pop(bid) == bid \div 2

RECURSIVE truncate(_, _)
truncate(bid, d) == IF id_depth(bid) <= d THEN bid ELSE truncate(pop(bid), d)

\* scale_ = range_[1] - range_[0]
scale_(T) == T.range_[2] - T.range_[1]

\* branch_id_t(range_, p, max_depth): the voxel of depth max_depth holding p
to_branch_id(T, p, max_depth) ==
  Pow2(max_depth) + ((p - T.range_[1]) * Pow2(max_depth)) \div scale_(T)

\* the voxel of a branch is [VoxLo / VoxDen, VoxHi / VoxDen)
VoxDen(bid) == Pow2(id_depth(bid))
VoxLo(T, bid) == T.range_[1] * VoxDen(bid) + scale_(T) * (bid - VoxDen(bid))
VoxHi(T, bid) == VoxLo(T, bid) + scale_(T)

\* branch_id::coordinates(range_, p): the centroid of the voxel, as the
\* numerator over 2 * VoxDen(bid)
id_coordinates(T, bid) == 2 * VoxLo(T, bid) + scale_(T)

NewBranch ==
  [leaf |-> TRUE, ents |-> <<>>, mass |-> 0, sub_entities |-> 0,
   comsum |-> 0, bmin |-> 0, bmax |-> 0]

\* tree_topology(start, end): the root alone
NewTree(start, end) ==
  [range_ |-> <<start, end>>, max_depth_ |-> 0,
   branch_map_ |-> (root_id :> NewBranch),
   \* entity -> the branch id the entity records (set_branch_id_)
   branch_id_ |-> <<>>]

RECURSIVE find_parent_(_, _)
find_parent_(T, bid) ==
  IF bid \in DOMAIN T.branch_map_ THEN bid ELSE find_parent_(T, pop(bid))

find_parent(T, bid, max_depth) == find_parent_(T, truncate(bid, max_depth))

\* child(b, i): the id of the i-th child
child(bid, i) == push(bid, i)

RECURSIVE insert(_, _, _, _)
RECURSIVE refine_(_, _, _)
RECURSIVE insertAll(_, _, _, _, _)

\* refine_ without b.set_leaf(false)
refine_KeepLeaf(T, E, b) ==
  LET d == id_depth(b) + 1
      T1 == [T EXCEPT
               !.branch_map_ =
                  @ @@ [c \in {push(b, i) : i \in 0 .. (num_children - 1)}
                          |-> NewBranch],
               !.max_depth_ = Max(@, d)]
      T2 == insertAll(T1, E, T.branch_map_[b].ents, 1, d)
  IN [T2 EXCEPT !.branch_map_[b] = NewBranch]

\* insert(ent, max_depth) that does not record the branch in the entity
insertNoBranchId(T, E, ent, max_depth) ==
  LET bid == to_branch_id(T, E[ent].coordinates, max_depth)
      b == find_parent(T, bid, max_depth)
      T1 == [T EXCEPT !.branch_id_ = (ent :> root_id) @@ @,
                      !.branch_map_[b].ents = Append(@, ent)]
  IN IF Len(T1.branch_map_[b].ents) > MaxLeaf THEN refine_(T1, E, b) ELSE T1

\* insert(ent, max_depth); E is entities_, ent an index in it
insert(T, E, ent, max_depth) ==
  LET bid == to_branch_id(T, E[ent].coordinates, max_depth)
      b == find_parent(T, bid, max_depth)
      T1 == [T EXCEPT !.branch_id_ = (ent :> b) @@ @,
                      !.branch_map_[b].ents = Append(@, ent)]
  IN IF Len(T1.branch_map_[b].ents) > MaxLeaf THEN refine_(T1, E, b) ELSE T1

\* the loop "for(auto ent : b) insert(ent, depth)" of refine_
insertAll(T, E, ents, i, d) ==
  IF i > Len(ents) THEN T
  ELSE insertAll(insert(T, E, ents[i], d), E, ents, i + 1, d)

refine_(T, E, b) ==
  LET d == id_depth(b) + 1
      T1 == [T EXCEPT
               !.branch_map_ =
                  @ @@ [c \in {push(b, i) : i \in 0 .. (num_children - 1)}
                          |-> NewBranch],
               !.max_depth_ = Max(@, d)]
      T2 == insertAll(T1, E, T.branch_map_[b].ents, 1, d)
  IN [T2 EXCEPT !.branch_map_[b] = [NewBranch EXCEPT !.leaf = FALSE]]

\* the public insert(ent)
insert_entity(T, E, ent) == insert(T, E, ent, T.max_depth_)

RECURSIVE SeqSum(_)
SeqSum(s) == IF s = <<>> THEN 0 ELSE Head(s) + SeqSum(Tail(s))

SetMin(S) == CHOOSE x \in S : \A y \in S : x <= y
SetMax(S) == CHOOSE x \in S : \A y \in S : x >= y

RECURSIVE traverse(_, _, _, _)
\* the traversal of update_branches(epsilon) below branch b; the centre of
\* mass is kept as its numerator comsum, to be divided by the mass
traverse(T, E, b, epsilon) ==
  LET br == T.branch_map_[b]
  IN IF br.leaf
     THEN LET n == Len(br.ents)
              cs == {E[br.ents[k]].coordinates : k \in 1 .. n}
          IN [T EXCEPT !.branch_map_[b] =
                [br EXCEPT
                   !.sub_entities = n,
                   !.mass = SeqSum([k \in 1 .. n |-> E[br.ents[k]].mass]),
                   !.comsum =
                      SeqSum([k \in 1 .. n |->
                                E[br.ents[k]].coordinates * E[br.ents[k]].mass]),
                   !.bmax = SetMax({-DBL_MAX} \cup {c + epsilon : c \in cs}),
                   !.bmin = SetMin({DBL_MAX} \cup {c - epsilon : c \in cs})]]
     ELSE LET T0 == traverse(T, E, child(b, 0), epsilon)
              T1 == traverse(T0, E, child(b, 1), epsilon)
              cb == [i \in 0 .. 1 |-> T1.branch_map_[child(b, i)]]
              heavy == {i \in 0 .. 1 : cb[i].mass > 0}
          IN [T1 EXCEPT !.branch_map_[b] =
                [br EXCEPT
                   !.sub_entities = cb[0].sub_entities + cb[1].sub_entities,
                   !.mass = cb[0].mass + cb[1].mass,
                   !.comsum = cb[0].comsum + cb[1].comsum,
                   !.bmax = SetMax({-DBL_MAX} \cup {cb[i].bmax : i \in heavy}),
                   !.bmin = SetMin({DBL_MAX} \cup {cb[i].bmin : i \in heavy})]]

update_branches(T, E, epsilon) == traverse(T, E, root_id, epsilon)

RECURSIVE traverse_local(_, _, _, _)
\* the traversal of update_branches_local(epsilon): the entities that are
\* not local are left out, and a child's box counts when it has entities
traverse_local(T, E, b, epsilon) ==
  LET br == T.branch_map_[b]
  IN IF br.leaf
     THEN LET loc == SelectSeq(br.ents, LAMBDA ent : E[ent].locality = "LOCAL")
              n == Len(loc)
              cs == {E[loc[k]].coordinates : k \in 1 .. n}
          IN [T EXCEPT !.branch_map_[b] =
                [br EXCEPT
                   !.sub_entities = n,
                   !.mass = SeqSum([k \in 1 .. n |-> E[loc[k]].mass]),
                   !.comsum =
                      SeqSum([k \in 1 .. n |->
                                E[loc[k]].coordinates * E[loc[k]].mass]),
                   !.bmax = SetMax({-DBL_MAX} \cup {c + epsilon : c \in cs}),
                   !.bmin = SetMin({DBL_MAX} \cup {c - epsilon : c \in cs})]]
     ELSE LET T0 == traverse_local(T, E, child(b, 0), epsilon)
              T1 == traverse_local(T0, E, child(b, 1), epsilon)
              cb == [i \in 0 .. 1 |-> T1.branch_map_[child(b, i)]]
              full == {i \in 0 .. 1 : cb[i].sub_entities > 0}
          IN [T1 EXCEPT !.branch_map_[b] =
                [br EXCEPT
                   !.sub_entities = cb[0].sub_entities + cb[1].sub_entities,
                   !.mass = cb[0].mass + cb[1].mass,
                   !.comsum = cb[0].comsum + cb[1].comsum,
                   !.bmax = SetMax({-DBL_MAX} \cup {cb[i].bmax : i \in full}),
                   !.bmin = SetMin({DBL_MAX} \cup {cb[i].bmin : i \in full})]]

\* update_branches_local that counts every entity
update_branches_localAll(T, E, epsilon) == traverse(T, E, root_id, epsilon)

update_branches_local(T, E, epsilon) == traverse_local(T, E, root_id, epsilon)

(***************************************************************************)
(* Geometry.  A search centre can be min + w * sqrt(2)/2 (find_in_box), so *)
(* a point is a pair [a, b] standing for a + b * sqrt(2)/2 with b >= 0,    *)
(* compared with a rational n / m (m > 0) by squaring.                     *)
(***************************************************************************)
Pt(c) == [a |-> c, b |-> 0]

\* n / m <= x
RatLeqPt(n, m, x) ==
  LET R == n - x.a * m
      L == x.b * m
  IN R <= 0 \/ 2 * R * R <= L * L

\* x <= n / m
PtLeqRat(x, n, m) ==
  LET R == n - x.a * m
      L == x.b * m
  IN R >= 0 /\ L * L <= 2 * R * R

\* branch_id_t(range_, p, max_depth) for such a point
to_branch_id_pt(T, p, max_depth) ==
  LET den == Pow2(max_depth)
  IN den + SetMax({k \in 0 .. (den - 1) :
                     RatLeqPt(T.range_[1] * den + scale_(T) * k, den, p)})

Abs(x) == IF x < 0 THEN -x ELSE x

\* geometry_t::within(a, b, r): the distance of a and b is at most r
within(a, b, r) == Abs(a - b) <= r

\* geometry_t::within_box(p, min, max)
within_box(p, min, max) == min <= p /\ p <= max

\* geometry_t::intersects(origin, size, scale, center, radius) for the voxel
\* of branch ci: the sphere meets the voxel
intersects(T, ci, center, radius) ==
  /\ VoxLo(T, ci) <= (center + radius) * VoxDen(ci)
  /\ (center - radius) * VoxDen(ci) <= VoxHi(T, ci)

\* geometry_t::intersects_box(origin, size, scale, min, max)
intersects_box(T, ci, min, max) ==
  /\ VoxLo(T, ci) <= max * VoxDen(ci)
  /\ min * VoxDen(ci) <= VoxHi(T, ci)

\* geometry_t::intersects_box_box(min_b1, max_b1, min_b2, max_b2)
intersects_box_box(min_b1, max_b1, min_b2, max_b2) ==
  min_b1 <= max_b2 /\ min_b2 <= max_b1

\* distance(center, p2) <= radius, for p2 the centroid of branch b and
\* radius a point with radius.b <= center.b
CentroidInRadius(T, b, center, radius) ==
  LET n == id_coordinates(T, b)
      m == 2 * VoxDen(b)
  IN /\ RatLeqPt(n, m, [a |-> center.a + radius.a, b |-> center.b + radius.b])
     /\ PtLeqRat([a |-> center.a - radius.a, b |-> center.b - radius.b], n, m)

RECURSIVE find_start_loop(_, _, _, _, _)
\* the while loop of find_start_
find_start_loop(T, bid, center, radius, d) ==
  IF d > 0
  THEN LET b == find_parent(T, bid, d)
       IN IF ~CentroidInRadius(T, b, center, radius)
          THEN b
          ELSE find_start_loop(T, bid, center, radius, d - 1)
  ELSE root_id

\* find_start_(center, radius, depth, size): the branch the search starts
\* from.  A branch returned at loop depth d that is not a leaf has depth d,
\* so the size handed to find_ is that of the branch.
find_start_(T, center, radius) ==
  LET bid == to_branch_id_pt(T, center, T.max_depth_)
  IN find_start_loop(T, bid, center, radius, id_depth(bid))

\* a search is [kind |-> "radius", center, radius] or
\* [kind |-> "box", min, max]; ef and bf are the two lambdas of the caller
ef(E, ent, q) ==
  IF q.kind = "radius"
  THEN within(E[ent].coordinates, q.center, q.radius)
  ELSE within_box(E[ent].coordinates, q.min, q.max)

bf(T, ci, q) ==
  IF q.kind = "radius"
  THEN intersects(T, ci, q.center, q.radius)
  ELSE intersects_box(T, ci, q.min, q.max)

RECURSIVE find_(_, _, _, _)
\* find_(b, size, ents, ef, bf, args...): the entities found below b, in
\* the order of the traversal
find_(T, E, b, q) ==
  LET br == T.branch_map_[b]
  IN IF br.leaf
     THEN SelectSeq(br.ents, LAMBDA ent : ef(E, ent, q))
     ELSE (IF bf(T, child(b, 0), q) THEN find_(T, E, child(b, 0), q) ELSE <<>>)
          \o (IF bf(T, child(b, 1), q) THEN find_(T, E, child(b, 1), q) ELSE <<>>)

find_in_radius(T, E, center, radius) ==
  find_(T, E, find_start_(T, Pt(center), Pt(radius)),
        [kind |-> "radius", center |-> center, radius |-> radius])

\* radius = (max - min) * sqrt(2)/2 and center = min + radius
find_in_box(T, E, min, max) ==
  find_(T, E,
        find_start_(T, [a |-> min, b |-> max - min], [a |-> 0, b |-> max - min]),
        [kind |-> "box", min |-> min, max |-> max])

(***************************************************************************)
(* One iteration of bodies_system: update_iteration after the distributed  *)
(* sort, then a kernel pass.  Every step is collective: it is taken by all *)
(* the ranks between two barriers.                                         *)
(***************************************************************************)
StepRanks == 3
NParticles == 5
MaxPos == 9
MaxMass == 2
MaxH == 1

\* double epsilon_ = 0.
epsilon_ == 0

Particles == 1 .. NParticles

\* the state after the sort: rank r owns the particles cut[r]+1 .. cut[r+1]
\* of the sequence ordered by (key, id); no rank is empty
SortedBodies(pos, mass, cut) ==
  [r \in Ranks |->
     [j \in 1 .. (cut[r + 1] - cut[r]) |->
        [coordinates |-> pos[cut[r] + j], mass |-> mass[cut[r] + j],
         id |-> cut[r] + j]]]

InitStep ==
  /\ pc = "iterate"
  /\ size \in 1 .. StepRanks
  /\ smoothinglength_ \in 1 .. MaxH
  /\ \E pos \in [Particles -> 0 .. MaxPos] :
       /\ pos[1] = 0
       /\ \A i \in 1 .. (NParticles - 1) : pos[i] <= pos[i + 1]
       \* no more coincident particles than a leaf can hold
       /\ \A i \in 1 .. (NParticles - MaxLeaf) : pos[i] < pos[i + MaxLeaf]
       /\ \E cut \in [0 .. size -> 0 .. NParticles] :
            /\ cut[0] = 0 /\ cut[size] = NParticles
            /\ \A r \in Ranks : cut[r] < cut[r + 1]
            /\ localbodies_ =
                 SortedBodies(pos, [i \in Particles |-> 1 + (i % MaxMass)], cut)
  /\ tree_ = <<>>
  /\ entities_ = <<>>
  /\ ghosts_data = <<>>
  /\ calls = <<>>
  /\ rbodies = <<>> /\ input = <<>> /\ master_keys = <<>>
  /\ splitters = <<>> /\ dist = <<>> /\ snapshot = <<>> /\ PoolIdle /\ FmmIdle /\ DriverIdle /\ nsorts = 1

AllBodies == UNION {{localbodies_[r][j] : j \in 1 .. Len(localbodies_[r])} : r \in Ranks}

\* mpi_compute_range: the box of all the bodies, padded by 2 h
mpi_compute_range ==
  LET cs == {b.coordinates : b \in AllBodies}
  IN <<SetMin(cs) - 2 * smoothinglength_, SetMax(cs) + 2 * smoothinglength_>>

\* the body holder made for a body of the rank; body is the index of the
\* body in localbodies_
LocalHolder(r, j) ==
  LET b == localbodies_[r][j]
  IN [coordinates |-> b.coordinates, mass |-> b.mass, owner |-> r,
      locality |-> "LOCAL", body |-> j, global_id |-> b.id]

\* body_holder(position, nullptr, owner, mass): body 0 is the null pointer,
\* and global_id records the particle the summary was made from
NonLocalHolder(s) ==
  [coordinates |-> s.position, mass |-> s.mass, owner |-> s.owner,
   locality |-> "NONLOCAL", body |-> 0, global_id |-> s.global_id]

is_local(ent) == ent.locality = "LOCAL"

RECURSIVE InsertFrom(_, _, _)
\* tree.insert(e) for the entities i, i+1, ... of E
InsertFrom(T, E, i) ==
  IF i > Len(E) THEN T ELSE InsertFrom(insert_entity(T, E, i), E, i + 1)

\* update_iteration up to the first update of the branches
BuildTree ==
  /\ pc = "iterate"
  /\ entities_' = [r \in Ranks |->
                     [j \in 1 .. Len(localbodies_[r]) |-> LocalHolder(r, j)]]
  /\ tree_' = [r \in Ranks |->
                 update_branches(
                   InsertFrom(NewTree(mpi_compute_range[1], mpi_compute_range[2]),
                              entities_'[r], 1),
                   entities_'[r], epsilon_)]
  /\ pc' = "built"
  /\ UNCHANGED <<size, sortvars, histvars, fmmvars, drivervars, poolvars, smoothinglength_, localbodies_, ghosts_data, calls>>

\* the box of the bodies of rank r, padded by 2 h
ranges(r) ==
  LET cs == {localbodies_[r][j].coordinates : j \in 1 .. Len(localbodies_[r])}
  IN <<SetMin(cs) - 2 * smoothinglength_, SetMax(cs) + 2 * smoothinglength_>>

\* what rank r sends to rank i: a summary of each entity of its tree that
\* find_in_box finds in the box of i
sendbuffer(r, i) ==
  LET ents == find_in_box(tree_[r], entities_[r], ranges(i)[1], ranges(i)[2])
  IN [k \in 1 .. Len(ents) |->
        [position |-> entities_[r][ents[k]].coordinates, owner |-> r,
         mass |-> entities_[r][ents[k]].mass,
         global_id |-> entities_[r][ents[k]].global_id]]

\* what rank r receives: the buffers of the other ranks, in rank order
branch_recvbuffer(r) ==
  Concat([i \in Ranks |-> IF i = r THEN <<>> ELSE sendbuffer(i, r)], size)

\* mpi_branches_exchange_useful_positions, then the update of the branches
BranchesExchange ==
  /\ pc = "built"
  /\ entities_' = [r \in Ranks |->
                     entities_[r] \o
                       [k \in 1 .. Len(branch_recvbuffer(r)) |->
                          NonLocalHolder(branch_recvbuffer(r)[k])]]
  /\ tree_' = [r \in Ranks |->
                 update_branches(
                   InsertFrom(tree_[r], entities_'[r], Len(entities_[r]) + 1),
                   entities_'[r], epsilon_)]
  /\ pc' = "exchanged"
  /\ UNCHANGED <<size, sortvars, histvars, fmmvars, drivervars, poolvars, smoothinglength_, localbodies_, ghosts_data, calls>>

\* entity_key_t(range, coordinates): the key of a position at full depth;
\* the resolution of the key is finer than the grid of the positions
entity_key(range, p) == p - range[1]

RECURSIVE InOrder(_)
\* the elements of a set of entity indices, in increasing order
InOrder(S) ==
  IF S = {} THEN <<>> ELSE <<SetMin(S)>> \o InOrder(S \ {SetMin(S)})

\* std::sort of body holders by the key of their coordinates: any
\* arrangement in which no holder is placed before one of a smaller key
SortHolders(E, range, s) ==
  {p \in PermsOf(s) :
     \A i, j \in 1 .. Len(s) : i < j =>
       ~(entity_key(range, E[p[j]].coordinates)
           < entity_key(range, E[p[i]].coordinates))}

\* the elements of a sequence
Range(s) == {s[k] : k \in 1 .. Len(s)}

\* the loop of mpi_compute_ghosts over the entities of the tree of rank r:
\* the pairs <<bi, nb>> of a local bi and a non-local nb found within 2 h
GhostPairs(r) ==
  LET E == entities_[r]
  IN UNION {{<<bi, nb>> :
               nb \in {x \in Range(find_in_radius(tree_[r], E, E[bi].coordinates,
                                                  2 * smoothinglength_)) :
                         ~is_local(E[x])}} :
            bi \in {e \in 1 .. Len(E) : is_local(E[e])}}

sendholders(r) ==
  [i \in Ranks |-> {pr[1] : pr \in {q \in GhostPairs(r) : entities_[r][q[2]].owner = i}}]

recvholders(r) ==
  [i \in Ranks |-> {pr[2] : pr \in {q \in GhostPairs(r) : entities_[r][q[2]].owner = i}}]

\* the ghosts_data a rank can end mpi_compute_ghosts with
ComputedGhosts(r) ==
  {[sendholders |-> sendholders(r),
    nsendholders |-> [i \in Ranks |-> Cardinality(sendholders(r)[i])],
    nrecvholders |-> [i \in Ranks |-> Cardinality(recvholders(r)[i])],
    totalrecvholders |-> t,
    recvbodies |-> <<>>] :
     t \in SortHolders(entities_[r], tree_[r].range_,
                       Concat([i \in Ranks |-> InOrder(recvholders(r)[i])], size))}

mpi_compute_ghosts ==
  /\ pc = "exchanged"
  /\ ghosts_data' \in AllChoices([r \in Ranks |-> <<>>],
                                 [r \in Ranks |-> ComputedGhosts(r)], 0, size)
  /\ pc' = "ghosts"
  /\ UNCHANGED <<size, sortvars, histvars, fmmvars, drivervars, poolvars, smoothinglength_, localbodies_, tree_, entities_, calls>>

\* the bodies rank r sends to rank i: those of sendholders[i], in the order
\* of the set
sendbodies(r, i) ==
  LET hs == InOrder(ghosts_data[r].sendholders[i])
  IN [k \in 1 .. Len(hs) |-> localbodies_[r][entities_[r][hs[k]].body]]

\* MPI_Alltoallv: what rank r receives, in rank order
ghost_recvbuffer(r) == Concat([i \in Ranks |-> sendbodies(i, r)], size)

\* std::sort of the received bodies by the key of their coordinates
SortBodiesByKey(range, s) ==
  {p \in PermsOf(s) :
     \A i, j \in 1 .. Len(s) : i < j =>
       ~(entity_key(range, p[j].coordinates) < entity_key(range, p[i].coordinates))}

\* the counts of an Alltoallv agree when every rank expects from every other
\* what that one sends to it
CountsAgree ==
  \A r, i \in Ranks : ghosts_data[r].nrecvholders[i] = ghosts_data[i].nsendholders[r]

\* a linking loop that runs over every holder of the tree: the holders that
\* are not in totalrecvholders lose their body
Linked_Every(r, rb) ==
  [e \in 1 .. Len(entities_[r]) |->
     [entities_[r][e] EXCEPT
        !.body = IF \E k \in 1 .. Len(ghosts_data[r].totalrecvholders) :
                      ghosts_data[r].totalrecvholders[k] = e
                 THEN CHOOSE k \in 1 .. Len(ghosts_data[r].totalrecvholders) :
                        ghosts_data[r].totalrecvholders[k] = e
                 ELSE 0]]

\* rank r after the linking loop of mpi_refresh_ghosts, for one outcome rb
\* of the sort of the received bodies: holder k gets body k
Linked(r, rb) ==
  [e \in 1 .. Len(entities_[r]) |->
     IF \E k \in 1 .. Len(ghosts_data[r].totalrecvholders) :
          ghosts_data[r].totalrecvholders[k] = e
     THEN [entities_[r][e] EXCEPT
             !.body = CHOOSE k \in 1 .. Len(ghosts_data[r].totalrecvholders) :
                        ghosts_data[r].totalrecvholders[k] = e]
     ELSE entities_[r][e]]

\* mpi_refresh_ghosts when the counts agree
mpi_refresh_ghosts ==
  /\ pc = "ghosts"
  /\ CountsAgree
  /\ \E rb \in AllChoices([r \in Ranks |-> <<>>],
                          [r \in Ranks |->
                             SortBodiesByKey(tree_[r].range_, ghost_recvbuffer(r))],
                          0, size) :
       /\ ghosts_data' = [r \in Ranks |-> [ghosts_data[r] EXCEPT !.recvbodies = rb[r]]]
       /\ entities_' = [r \in Ranks |-> Linked(r, rb[r])]
  /\ pc' = "refreshed"
  /\ UNCHANGED <<size, sortvars, histvars, fmmvars, drivervars, poolvars, smoothinglength_, localbodies_, tree_, calls>>

\* mpi_refresh_ghosts when a rank expects another count than is sent to it:
\* the Alltoallv is erroneous
mpi_refresh_ghosts_mismatch ==
  /\ pc = "ghosts"
  /\ ~CountsAgree
  /\ pc' = "abort"
  /\ UNCHANGED <<size, sortvars, stepvars, histvars, fmmvars, drivervars, poolvars>>


(***************************************************************************)
(* The kernel evaluator: apply_sub_cells and its helpers.  The branches    *)
(* are taken in the order the stacks of the code pop them.                 *)
(***************************************************************************)
RECURSIVE work_cells(_, _, _)
\* the branches apply_sub_cells makes a task of, below branch c
work_cells(T, c, ncritical) ==
  LET br == T.branch_map_[c]
  IN IF br.leaf /\ br.sub_entities > 0 THEN <<c>>
     ELSE IF br.sub_entities < ncritical /\ br.sub_entities > 0 THEN <<c>>
     ELSE (IF T.branch_map_[child(c, 1)].sub_entities > 0
           THEN work_cells(T, child(c, 1), ncritical) ELSE <<>>)
          \o (IF T.branch_map_[child(c, 0)].sub_entities > 0
              THEN work_cells(T, child(c, 0), ncritical) ELSE <<>>)

\* the test of sub_cells_inter on a child of the branch being opened
InterChild(T, b, c) ==
  /\ T.branch_map_[c].sub_entities > 0
  /\ intersects_box_box(T.branch_map_[b].bmin, T.branch_map_[b].bmax,
                        T.branch_map_[c].bmin, T.branch_map_[c].bmax)

RECURSIVE sub_cells_inter_from(_, _, _)
sub_cells_inter_from(T, b, c) ==
  IF T.branch_map_[c].leaf THEN <<c>>
  ELSE (IF InterChild(T, b, child(c, 1))
        THEN sub_cells_inter_from(T, b, child(c, 1)) ELSE <<>>)
       \o (IF InterChild(T, b, child(c, 0))
           THEN sub_cells_inter_from(T, b, child(c, 0)) ELSE <<>>)

\* an inter_list that also takes the leaves found from b itself
sub_cells_inter_Twice(T, b, MAC) ==
  sub_cells_inter_from(T, b, root_id) \o sub_cells_inter_from(T, b, b)

\* sub_cells_inter(b, MAC, inter_list): the leaves kept for work cell b
sub_cells_inter(T, b, MAC) == sub_cells_inter_from(T, b, root_id)

\* apply_sub_entity: one invocation of the callable, with its neighbors
apply_sub_entity(T, E, ent, inter_list, radius) ==
  [ent |-> ent, radius |-> radius,
   neighbors |->
     Concat([k \in 0 .. (Len(inter_list) - 1) |->
               SelectSeq(T.branch_map_[inter_list[k + 1]].ents,
                         LAMBDA nb : within(E[ent].coordinates,
                                            E[nb].coordinates, radius))],
            Len(inter_list))]

\* the pruning of force_calc on the children of a branch it opens
ForceChild(T, c) == T.branch_map_[c].mass > 0

RECURSIVE force_calc(_, _, _, _, _)
\* force_calc(b, inter_list, radius, ef): the invocations made below c
force_calc(T, E, c, inter_list, radius) ==
  IF T.branch_map_[c].leaf
  THEN LET loc == SelectSeq(T.branch_map_[c].ents, LAMBDA e : is_local(E[e]))
       IN [k \in 1 .. Len(loc) |->
             apply_sub_entity(T, E, loc[k], inter_list, radius)]
  ELSE (IF ForceChild(T, child(c, 1))
        THEN force_calc(T, E, child(c, 1), inter_list, radius) ELSE <<>>)
       \o (IF ForceChild(T, child(c, 0))
           THEN force_calc(T, E, child(c, 0), inter_list, radius) ELSE <<>>)

\* apply_sub_cells(b, radius, MAC, ncritical, ef): all the invocations
apply_sub_cells(T, E, b, radius, MAC, ncritical) ==
  LET cells == work_cells(T, b, ncritical)
  IN Concat([k \in 0 .. (Len(cells) - 1) |->
               force_calc(T, E, cells[k + 1],
                          sub_cells_inter(T, cells[k + 1], MAC), radius)],
            Len(cells))

\* int64_t ncritical = 32, handed over in the place of MAC
ncritical32 == 32

\* bodies_system::apply_in_smoothinglength(ef): apply_sub_cells(root, 0.,
\* ncritical, param::sph_variable_h, ef), whose parameters are (b, radius,
\* MAC, ncritical, ef)
apply_in_smoothinglength ==
  /\ pc = "refreshed"
  /\ \E sph_variable_h \in BOOLEAN :
       calls' = [r \in Ranks |->
                   apply_sub_cells(tree_[r], entities_[r], root_id, 0,
                                   ncritical32,
                                   IF sph_variable_h THEN 1 ELSE 0)]
  /\ pc' = "applied"
  /\ UNCHANGED <<size, sortvars, histvars, fmmvars, drivervars, poolvars, smoothinglength_, localbodies_, tree_,
                 entities_, ghosts_data>>

NextStep ==
  \/ BuildTree
  \/ BranchesExchange
  \/ mpi_compute_ghosts
  \/ mpi_refresh_ghosts
  \/ mpi_refresh_ghosts_mismatch
  \/ apply_in_smoothinglength

SpecStep == InitStep /\ [][NextStep]_vars

(***************************************************************************)
(* A single tree driven through its public operations: entities are made   *)
(* and inserted one at a time, the branches are updated, and               *)
(* apply_sub_cells is called on the root.                                  *)
(***************************************************************************)
TreeEntities == 3
TreeRange == 4
MaxRadius == 1
MaxNcritical == 4

InitTree ==
  /\ pc = "tree"
  /\ size = 1
  /\ tree_ = [r \in {0} |-> NewTree(0, TreeRange)]
  /\ entities_ = [r \in {0} |-> <<>>]
  /\ calls = [r \in {0} |-> <<>>]
  /\ smoothinglength_ = 0
  /\ localbodies_ = <<>>
  /\ ghosts_data = <<>>
  /\ rbodies = <<>> /\ input = <<>> /\ master_keys = <<>>
  /\ splitters = <<>> /\ dist = <<>> /\ snapshot = <<>> /\ PoolIdle /\ FmmIdle /\ DriverIdle /\ nsorts = 0

\* make_entity(position, bodyptr, owner, mass) followed by insert(ent); a
\* holder made with a body is local, one made without is not
MakeAndInsert ==
  /\ pc \in {"tree", "updated", "updated_local", "removed"}
  /\ Len(entities_[0]) < TreeEntities
  /\ \E position \in 0 .. (TreeRange - 1), mass \in 0 .. 1, local \in BOOLEAN :
       \* no more coincident entities than a leaf can hold
       /\ Cardinality({e \in 1 .. Len(entities_[0]) :
                         entities_[0][e].coordinates = position}) < MaxLeaf
       /\ entities_' =
            [entities_ EXCEPT ![0] =
               Append(@, [coordinates |-> position, mass |-> mass,
                          owner |-> IF local THEN 0 ELSE 1,
                          locality |-> IF local THEN "LOCAL" ELSE "NONLOCAL",
                          body |-> IF local THEN Len(@) + 1 ELSE 0,
                          global_id |-> Len(@) + 1])]
       /\ tree_' = [tree_ EXCEPT ![0] =
                      insert_entity(@, entities_'[0], Len(entities_'[0]))]
  /\ snapshot' = tree_[0]
  /\ pc' = "tree"
  /\ UNCHANGED <<size, sortvars, poolvars, fmmvars, drivervars,
                 smoothinglength_, localbodies_, ghosts_data, calls>>

UpdateBranches ==
  /\ pc = "tree"
  /\ tree_' = [tree_ EXCEPT ![0] = update_branches(@, entities_[0], epsilon_)]
  /\ pc' = "updated"
  /\ UNCHANGED <<size, sortvars, histvars, fmmvars, drivervars, poolvars, smoothinglength_, localbodies_, entities_,
                 ghosts_data, calls>>

UpdateBranchesLocal ==
  /\ pc = "tree"
  /\ tree_' = [tree_ EXCEPT ![0] = update_branches_local(@, entities_[0], epsilon_)]
  /\ pc' = "updated_local"
  /\ UNCHANGED <<size, sortvars, histvars, fmmvars, drivervars, poolvars, smoothinglength_, localbodies_, entities_,
                 ghosts_data, calls>>

\* apply_sub_cells(root(), radius, MAC, ncritical, ef) on a tree that is not
\* empty
ApplySubCells ==
  /\ pc = "updated"
  /\ tree_[0].branch_map_[root_id].sub_entities > 0
  /\ \E radius \in 0 .. MaxRadius, ncritical \in 0 .. MaxNcritical :
       calls' = [calls EXCEPT ![0] =
                   apply_sub_cells(tree_[0], entities_[0], root_id, radius,
                                   ncritical32, ncritical)]
  /\ pc' = "applied"
  /\ UNCHANGED <<size, sortvars, histvars, fmmvars, drivervars, poolvars, smoothinglength_, localbodies_, tree_,
                 entities_, ghosts_data>>

NextTree ==
  \/ MakeAndInsert
  \/ UpdateBranches
  \/ UpdateBranchesLocal
  \/ ApplySubCells

SpecTree == InitTree /\ [][NextTree]_vars

(***************************************************************************)
(* remove(ent) and coarsen_.  The branch policy (branch_t::remove, the     *)
(* action it asks for, should_coarsen) is not among the sources; it is     *)
(* modelled from the specification: a leaf that falls to the capacity or   *)
(* below asks for coarsening, and a parent should be coarsened when the    *)
(* entities below it fit in one leaf.                                      *)
(***************************************************************************)
\* branch_id_t::null()
null_id == 0

\* b->parent(): the branch above b, none above the root
parent(T, b) == IF b = root_id THEN null_id ELSE pop(b)

RECURSIVE SubEntities(_, _)
\* the number of entities held at or below branch b
SubEntities(T, b) ==
  IF T.branch_map_[b].leaf THEN Len(T.branch_map_[b].ents)
  ELSE SubEntities(T, child(b, 0)) + SubEntities(T, child(b, 1))

\* Policy::should_coarsen(p)
should_coarsen(T, p) == SubEntities(T, p) <= MaxLeaf

\* branch_t::remove(ent) asks for coarsening of a leaf left with n entities
asks_coarsen(n) == n <= MaxLeaf

RECURSIVE MoveEnts(_, _, _, _)
\* for(auto ent : *ci) { p->insert(ent); ent->set_branch_id_(p->id()); }
MoveEnts(T, p, ents, k) ==
  IF k > Len(ents) THEN T
  ELSE MoveEnts([T EXCEPT !.branch_map_[p].ents = Append(@, ents[k]),
                          !.branch_id_[ents[k]] = p],
                p, ents, k + 1)

Erase(T, ci) ==
  [T EXCEPT !.branch_map_ = [k \in (DOMAIN @) \ {ci} |-> @[k]]]

RECURSIVE coarsen_into(_, _, _)
RECURSIVE coarsen_children(_, _, _, _)

\* coarsen_(p, b): the entities below b go to p, the branches below b go
coarsen_into(T, p, b) ==
  IF T.branch_map_[b].leaf THEN T ELSE coarsen_children(T, p, b, 0)

coarsen_children(T, p, b, i) ==
  IF i = num_children THEN T
  ELSE LET ci == child(b, i)
           T1 == MoveEnts(T, p, T.branch_map_[ci].ents, 1)
           T2 == coarsen_into(T1, p, ci)
       IN coarsen_children(Erase(T2, ci), p, b, i + 1)

\* coarsen_(p)
coarsen_(T, p) ==
  [coarsen_into(T, p, p) EXCEPT !.branch_map_[p].leaf = TRUE]

\* remove(ent)
remove(T, ent) ==
  LET b == T.branch_id_[ent]
      T1 == [T EXCEPT
               !.branch_map_[b].ents = SelectSeq(@, LAMBDA x : x # ent),
               !.branch_id_[ent] = null_id]
      p == parent(T1, b)
  IN IF asks_coarsen(Len(T1.branch_map_[b].ents))
        /\ p # null_id /\ should_coarsen(T1, p)
     THEN coarsen_(T1, p)
     ELSE T1

\* remove(ent) for an entity that is in the tree
Remove ==
  /\ pc = "tree"
  /\ \E ent \in 1 .. Len(entities_[0]) :
       /\ tree_[0].branch_id_[ent] # null_id
       /\ tree_' = [tree_ EXCEPT ![0] = remove(@, ent)]
  /\ pc' = "removed"
  /\ UNCHANGED <<size, sortvars, histvars, fmmvars, drivervars, poolvars, smoothinglength_, localbodies_,
                 entities_, ghosts_data, calls>>

NextRemove ==
  \/ NextTree
  \/ Remove

SpecRemove == InitTree /\ [][NextRemove]_vars

(***************************************************************************)
(* The searches.  find_in_radius_b and find_in_box_b walk the tree from    *)
(* the root with a stack and prune on the boxes stored by update_branches. *)
(***************************************************************************)
\* geometry_t::intersects_sphere_box(min, max, center, radius)
intersects_sphere_box(min, max, center, radius) ==
  min - radius <= center /\ center <= max + radius

\* a search by the stored boxes: the test on an entity and on a branch
ef_b(E, ent, q) ==
  IF q.kind = "radius"
  THEN within(q.center, E[ent].coordinates, q.radius)
  ELSE within_box(E[ent].coordinates, q.min, q.max)

bf_b(T, ci, q) ==
  IF q.kind = "radius"
  THEN intersects_sphere_box(T.branch_map_[ci].bmin, T.branch_map_[ci].bmax,
                             q.center, q.radius)
  ELSE intersects_box_box(q.min, q.max,
                          T.branch_map_[ci].bmin, T.branch_map_[ci].bmax)

\* the same without the pruning
bf_bAll(T, ci, q) == TRUE

RECURSIVE find_b(_, _, _, _, _)
\* the while loop on the stack stk (top at the end), ents found so far
find_b(T, E, stk, ents, q) ==
  IF stk = <<>> THEN ents
  ELSE LET b == stk[Len(stk)]
           rest == SubSeq(stk, 1, Len(stk) - 1)
           br == T.branch_map_[b]
       IN IF br.leaf
          THEN find_b(T, E, rest,
                      ents \o SelectSeq(br.ents, LAMBDA ent : ef_b(E, ent, q)), q)
          ELSE find_b(T, E,
                      rest \o SelectSeq(<<child(b, 0), child(b, 1)>>,
                                        LAMBDA ci : bf_b(T, ci, q)),
                      ents, q)

find_in_radius_b(T, E, center, radius) ==
  find_b(T, E, <<root_id>>, <<>>,
         [kind |-> "radius", center |-> center, radius |-> radius])

find_in_box_b(T, E, min, max) ==
  find_b(T, E, <<root_id>>, <<>>, [kind |-> "box", min |-> min, max |-> max])

(***************************************************************************)
(* A tree that was filled and whose branches were updated, and one search  *)
(* on it.                                                                  *)
(***************************************************************************)
SearchRange == 8
MaxWidth == 2

RECURSIVE InsertUpTo(_, _, _)
\* the tree after insert(ent) for the first n entities of E
InsertUpTo(T, E, n) ==
  IF n = 0 THEN T ELSE insert_entity(InsertUpTo(T, E, n - 1), E, n)

InitSearch ==
  /\ pc = "updated"
  /\ size = 1
  /\ \E n \in 0 .. TreeEntities :
       \E position \in [1 .. n -> 0 .. (SearchRange - 1)],
          mass \in [1 .. n -> 0 .. 1] :
         /\ \A i, j \in 1 .. n : i < j => position[i] <= position[j]
         /\ \A i \in 1 .. n :
              Cardinality({j \in 1 .. n : position[j] = position[i]}) <= MaxLeaf
         /\ entities_ =
              [r \in {0} |->
                 [e \in 1 .. n |->
                    [coordinates |-> position[e], mass |-> mass[e], owner |-> 0,
                     locality |-> "LOCAL", body |-> e, global_id |-> e]]]
  /\ tree_ = [r \in {0} |->
                update_branches(
                  InsertUpTo(NewTree(0, SearchRange), entities_[0],
                             Len(entities_[0])),
                  entities_[0], epsilon_)]
  /\ calls = [r \in {0} |-> <<>>]
  /\ smoothinglength_ = 0
  /\ localbodies_ = <<>>
  /\ ghosts_data = <<>>
  /\ rbodies = <<>> /\ input = <<>> /\ master_keys = <<>>
  /\ splitters = <<>> /\ dist = <<>> /\ snapshot = <<>> /\ PoolIdle /\ FmmIdle /\ DriverIdle /\ nsorts = 0

\* the search op with the query q has returned found
Searched(op, q, found) ==
  /\ calls' = [calls EXCEPT ![0] = <<[op |-> op, q |-> q, found |-> found]>>]
  /\ pc' = "searched"
  /\ UNCHANGED <<size, sortvars, histvars, fmmvars, drivervars, poolvars, smoothinglength_, localbodies_, tree_,
                 entities_, ghosts_data>>

RadiusQueries ==
  {[kind |-> "radius", center |-> c, radius |-> r] :
     c \in 0 .. (SearchRange - 1), r \in 0 .. MaxRadius}

BoxQueries ==
  {[kind |-> "box", min |-> a, max |-> a + w] :
     a \in 0 .. (SearchRange - 1), w \in 0 .. MaxWidth}

FindInRadiusB ==
  /\ pc = "updated"
  /\ \E q \in RadiusQueries :
       Searched("find_in_radius_b", q,
                find_in_radius_b(tree_[0], entities_[0], q.center, q.radius))

FindInBoxB ==
  /\ pc = "updated"
  /\ \E q \in BoxQueries :
       Searched("find_in_box_b", q,
                find_in_box_b(tree_[0], entities_[0], q.min, q.max))

FindInRadius ==
  /\ pc = "updated"
  /\ \E q \in RadiusQueries :
       Searched("find_in_radius", q,
                find_in_radius(tree_[0], entities_[0], q.center, q.radius))

FindInBox ==
  /\ pc = "updated"
  /\ \E q \in BoxQueries :
       Searched("find_in_box", q,
                find_in_box(tree_[0], entities_[0], q.min, q.max))

NextSearch ==
  \/ FindInRadiusB
  \/ FindInBoxB
  \/ FindInRadius
  \/ FindInBox

SpecSearch == InitSearch /\ [][NextSearch]_vars

(***************************************************************************)
(* The traversals with a thread pool: find_ and apply_ (from the branch    *)
(* find_start_ gives), visit_ and visit_children_ (from a branch b).  The  *)
(* calling thread walks the tree down to queue_depth, queues one task per  *)
(* branch it reaches there, and waits on a semaphore that starts at 1 - m. *)
(* thread_pool and virtual_semaphore are not among the sources: a queued   *)
(* task is run at some time by a thread of the pool, and acquire() waits   *)
(* for a count of at least 1.  The callables ef, bf and f are the          *)
(* caller's: a test may turn out either way.                               *)
(***************************************************************************)
MaxThreads == 2

RECURSIVE Log2Floor(_)
Log2Floor(n) == IF n <= 1 THEN 0 ELSE 1 + Log2Floor(n \div 2)

\* get_queue_depth(pool): log2(n) / log2(2^dimension) + 1, as a size_t
get_queue_depth(n) == Log2Floor(n) \div dimension + 1

\* the releases for a leaf, or a branch left out, at depth depth:
\* m = 1 << (queue_depth - depth) * dimension
LeafReleasesOne(queue_depth, depth) == 1

LeafReleases(queue_depth, depth) == Pow2((queue_depth - depth) * dimension)

Call(b, depth, kind) == [t |-> kind, b |-> b, depth |-> depth]

Top == frames[Len(frames)]
Popped == SubSeq(frames, 1, Len(frames) - 1)

\* sem.release(), n times
Release(n) ==
  /\ sem' = sem + n
  /\ released' = released + n

\* the calling thread has made its call: find_in_radius / find_in_box /
\* apply_in_radius / apply_in_box after find_start_, or visit /
\* visit_children on a branch
StartTraversal ==
  /\ pc = "updated"
  /\ \E op \in {"find_", "apply_", "visit_", "visit_children_"},
        num_threads \in 1 .. MaxThreads,
        b \in DOMAIN tree_[0].branch_map_ :
       \E depth \in
            IF op \in {"visit_", "visit_children_"} THEN {0}
            ELSE IF b = root_id THEN {0}
            ELSE IF tree_[0].branch_map_[b].leaf
                 THEN id_depth(b) .. tree_[0].max_depth_
                 ELSE {id_depth(b)} :
         LET queue_depth == get_queue_depth(num_threads)
             m == Pow2(queue_depth * dimension)
         IN /\ trav' = [op |-> op, m |-> m, queue_depth |-> queue_depth + depth,
                        start |-> b]
            /\ sem' = 1 - m
            /\ frames' = <<Call(b, depth, "call")>>
  /\ tasks' = {}
  /\ released' = 0
  /\ pc' = "traversing"
  /\ UNCHANGED <<size, sortvars, stepvars, histvars, fmmvars, drivervars>>

\* find_ / apply_ entered on branch b at depth depth
FindCall ==
  /\ pc = "traversing" /\ frames # <<>>
  /\ trav.op \in {"find_", "apply_"} /\ Top.t = "call"
  /\ IF tree_[0].branch_map_[Top.b].leaf
     THEN /\ Release(LeafReleases(trav.queue_depth, Top.depth))
          /\ frames' = Popped
     ELSE /\ frames' = Popped \o <<Call(child(Top.b, 1), Top.depth + 1, "child"),
                                   Call(child(Top.b, 0), Top.depth + 1, "child")>>
          /\ UNCHANGED <<sem, released>>
  /\ UNCHANGED <<pc, size, sortvars, stepvars, histvars, fmmvars, drivervars, trav, tasks>>

\* the body of the loop of find_ / apply_ for one child ci, depth being
\* the depth after ++depth
FindChild ==
  /\ pc = "traversing" /\ frames # <<>>
  /\ trav.op \in {"find_", "apply_"} /\ Top.t = "child"
  /\ \E hit \in BOOLEAN :
       IF hit
       THEN IF Top.depth = trav.queue_depth
            THEN /\ tasks' = tasks \cup {Top.b}
                 /\ frames' = Popped
                 /\ UNCHANGED <<sem, released>>
            ELSE /\ frames' = Popped \o <<Call(Top.b, Top.depth, "call")>>
                 /\ UNCHANGED <<tasks, sem, released>>
       ELSE /\ IF Top.depth > trav.queue_depth
               THEN UNCHANGED <<sem, released>>
               ELSE Release(LeafReleases(trav.queue_depth, Top.depth))
            /\ frames' = Popped
            /\ UNCHANGED tasks
  /\ UNCHANGED <<pc, size, sortvars, stepvars, histvars, fmmvars, drivervars, trav>>

\* visit_ / visit_children_ entered on branch b at depth depth
VisitCall ==
  /\ pc = "traversing" /\ frames # <<>>
  /\ trav.op \in {"visit_", "visit_children_"}
  /\ IF Top.depth = trav.queue_depth
     THEN /\ tasks' = tasks \cup {Top.b}
          /\ frames' = Popped
          /\ UNCHANGED <<sem, released>>
     ELSE \E stop \in IF trav.op = "visit_" THEN BOOLEAN ELSE {FALSE} :
            IF stop \/ tree_[0].branch_map_[Top.b].leaf
            THEN /\ Release(LeafReleases(trav.queue_depth, Top.depth))
                 /\ frames' = Popped
                 /\ UNCHANGED tasks
            ELSE /\ frames' =
                      Popped \o <<Call(child(Top.b, 1), Top.depth + 1, "call"),
                                  Call(child(Top.b, 0), Top.depth + 1, "call")>>
                 /\ UNCHANGED <<tasks, sem, released>>
  /\ UNCHANGED <<pc, size, sortvars, stepvars, histvars, fmmvars, drivervars, trav>>

\* a thread of the pool runs a queued task: the traversal below the
\* branch, without the pool, then sem.release()
RunTask ==
  /\ pc = "traversing"
  /\ \E task \in tasks : tasks' = tasks \ {task}
  /\ Release(1)
  /\ UNCHANGED <<pc, size, sortvars, stepvars, histvars, fmmvars, drivervars, trav, frames>>

\* sem.acquire() of the calling thread, after its traversal has returned
Acquire ==
  /\ pc = "traversing" /\ frames = <<>>
  /\ sem >= 1
  /\ sem' = sem - 1
  /\ pc' = "joined"
  /\ UNCHANGED <<size, sortvars, stepvars, histvars, fmmvars, drivervars, trav, frames, tasks, released>>

InitPool ==
  /\ InitSearch
  /\ \A e \in 1 .. Len(entities_[0]) : entities_[0][e].mass = 1

NextPool ==
  \/ StartTraversal
  \/ FindCall
  \/ FindChild
  \/ VisitCall
  \/ RunTask
  \/ Acquire

SpecPool == InitPool /\ [][NextPool]_vars

\* the calling thread runs on, and the pool runs every task it is given
SpecPoolFair ==
  /\ SpecPool
  /\ WF_vars(FindCall \/ FindChild \/ VisitCall)
  /\ WF_vars(RunTask)
  /\ WF_vars(Acquire)

(***************************************************************************)
(* find_in_radius(pool, center, radius) and find_in_box(pool, min, max)    *)
(* with their tests: the calling thread walks find_(pool, ...) from the    *)
(* branch of find_start_, pushes the hits of the leaves it meets into ents *)
(* under mtx, and queues one task per branch it reaches at queue_depth;    *)
(* a task runs the sequential find_ into its own branch_ents and appends   *)
(* them to ents under mtx.  trav holds the locals of the call: the query   *)
(* q, ents, and the holder of mtx (0: no thread, -1: the calling thread,   *)
(* b: the task of branch b).  A push_back or an append reads the end of    *)
(* the vector and then writes behind it.                                   *)
(***************************************************************************)
RECURSIVE find_start_depth_loop(_, _, _, _, _)
\* the value of depth when the while loop of find_start_ returns
find_start_depth_loop(T, bid, center, radius, d) ==
  IF d > 0
  THEN IF ~CentroidInRadius(T, find_parent(T, bid, d), center, radius)
       THEN d
       ELSE find_start_depth_loop(T, bid, center, radius, d - 1)
  ELSE 0

find_start_depth(T, center, radius) ==
  LET bid == to_branch_id_pt(T, center, T.max_depth_)
  IN find_start_depth_loop(T, bid, center, radius, id_depth(bid))

\* the centre and the radius handed to find_start_ for the query q
start_center(q) ==
  IF q.kind = "radius" THEN Pt(q.center)
  ELSE [a |-> q.min, b |-> q.max - q.min]

start_radius(q) ==
  IF q.kind = "radius" THEN Pt(q.radius)
  ELSE [a |-> 0, b |-> q.max - q.min]

\* the search without a pool for the same query
sequential_find(T, E, q) ==
  IF q.kind = "radius"
  THEN find_in_radius(T, E, q.center, q.radius)
  ELSE find_in_box(T, E, q.min, q.max)

\* mtx.lock() returns at once whoever holds the mutex
mtx_lock_NoWait(holder) == TRUE

\* mtx.lock() returns for a thread when no thread holds the mutex
mtx_lock(holder) == holder = 0

\* the tasks a thread of the pool is running
running_tasks == {task \in tasks : task.st # "queued"}

PfindStart ==
  /\ pc = "updated"
  /\ \E q \in RadiusQueries \cup BoxQueries, num_threads \in 1 .. MaxThreads :
       LET queue_depth == get_queue_depth(num_threads)
           m == Pow2(queue_depth * dimension)
           b == find_start_(tree_[0], start_center(q), start_radius(q))
           depth == find_start_depth(tree_[0], start_center(q), start_radius(q))
       IN /\ trav' = [op |-> "find_", m |-> m, queue_depth |-> queue_depth + depth,
                      start |-> b, q |-> q, num_threads |-> num_threads,
                      ents |-> <<>>, mtx |-> 0]
          /\ sem' = 1 - m
          /\ frames' = <<Call(b, depth, "call")>>
  /\ tasks' = {}
  /\ released' = 0
  /\ pc' = "traversing"
  /\ UNCHANGED <<size, sortvars, stepvars, histvars, fmmvars, drivervars>>

\* find_(pool, ...) entered on a branch that is not a leaf: size /= 2,
\* ++depth, and the loop on the children
PfindCall ==
  /\ pc = "traversing" /\ frames # <<>> /\ Top.t = "call"
  /\ ~tree_[0].branch_map_[Top.b].leaf
  /\ frames' = Popped \o <<Call(child(Top.b, 1), Top.depth + 1, "child"),
                           Call(child(Top.b, 0), Top.depth + 1, "child")>>
  /\ UNCHANGED <<pc, size, sortvars, stepvars, histvars, fmmvars, drivervars, trav, tasks, sem, released>>

\* find_(pool, ...) entered on a leaf: mtx.lock()
PfindLeafLock ==
  /\ pc = "traversing" /\ frames # <<>> /\ Top.t = "call"
  /\ tree_[0].branch_map_[Top.b].leaf
  /\ mtx_lock(trav.mtx)
  /\ trav' = [trav EXCEPT !.mtx = -1]
  /\ frames' = Popped \o <<[t |-> "locked", b |-> Top.b, depth |-> Top.depth,
                            base |-> trav.ents]>>
  /\ UNCHANGED <<pc, size, sortvars, stepvars, histvars, fmmvars, drivervars, tasks, sem, released>>

\* the pushes of the leaf, mtx.unlock(), the releases, return
PfindLeafPush ==
  /\ pc = "traversing" /\ frames # <<>> /\ Top.t = "locked"
  /\ trav' = [trav EXCEPT
                !.ents = Top.base \o find_(tree_[0], entities_[0], Top.b, trav.q),
                !.mtx = 0]
  /\ Release(LeafReleases(trav.queue_depth, Top.depth))
  /\ frames' = Popped
  /\ UNCHANGED <<pc, size, sortvars, stepvars, histvars, fmmvars, drivervars, tasks>>

\* the body of the loop for the child ci: the test bf, then a task, a
\* call, or the releases for a child left out
PfindChild ==
  /\ pc = "traversing" /\ frames # <<>> /\ Top.t = "child"
  /\ IF bf(tree_[0], Top.b, trav.q)
     THEN IF Top.depth = trav.queue_depth
          THEN /\ tasks' = tasks \cup {[b |-> Top.b, st |-> "queued",
                                        branch_ents |-> <<>>, base |-> <<>>]}
               /\ frames' = Popped
               /\ UNCHANGED <<sem, released>>
          ELSE /\ frames' = Popped \o <<Call(Top.b, Top.depth, "call")>>
               /\ UNCHANGED <<tasks, sem, released>>
     ELSE /\ IF Top.depth > trav.queue_depth
             THEN UNCHANGED <<sem, released>>
             ELSE Release(LeafReleases(trav.queue_depth, Top.depth))
          /\ frames' = Popped
          /\ UNCHANGED tasks
  /\ UNCHANGED <<pc, size, sortvars, stepvars, histvars, fmmvars, drivervars, trav>>

\* a free thread of the pool takes a queued task f and runs its find_(ci,
\* size, branch_ents, ...)
PfindTaskFind ==
  /\ pc = "traversing"
  /\ Cardinality(running_tasks) < trav.num_threads
  /\ \E task \in tasks :
       /\ task.st = "queued"
       /\ tasks' = (tasks \ {task}) \cup
                     {[task EXCEPT
                         !.st = "found",
                         !.branch_ents =
                            find_(tree_[0], entities_[0], task.b, trav.q)]}
  /\ UNCHANGED <<pc, size, sortvars, stepvars, histvars, fmmvars, drivervars, trav, frames, sem, released>>

\* mtx.lock() of a task
PfindTaskLock ==
  /\ pc = "traversing"
  /\ \E task \in tasks :
       /\ task.st = "found"
       /\ mtx_lock(trav.mtx)
       /\ trav' = [trav EXCEPT !.mtx = task.b]
       /\ tasks' = (tasks \ {task}) \cup
                     {[task EXCEPT !.st = "locked", !.base = trav.ents]}
  /\ UNCHANGED <<pc, size, sortvars, stepvars, histvars, fmmvars, drivervars, frames, sem, released>>

\* ents.append(branch_ents); mtx.unlock()
PfindTaskAppend ==
  /\ pc = "traversing"
  /\ \E task \in tasks :
       /\ task.st = "locked"
       /\ trav' = [trav EXCEPT !.ents = task.base \o task.branch_ents,
                               !.mtx = 0]
       /\ tasks' = (tasks \ {task}) \cup {[task EXCEPT !.st = "appended"]}
  /\ UNCHANGED <<pc, size, sortvars, stepvars, histvars, fmmvars, drivervars, frames, sem, released>>

\* sem.release() of a task, and its end
PfindTaskRelease ==
  /\ pc = "traversing"
  /\ \E task \in tasks :
       /\ task.st = "appended"
       /\ tasks' = tasks \ {task}
  /\ Release(1)
  /\ UNCHANGED <<pc, size, sortvars, stepvars, histvars, fmmvars, drivervars, trav, frames>>

\* sem.acquire(), and return ents
PfindAcquire ==
  /\ pc = "traversing" /\ frames = <<>>
  /\ sem >= 1
  /\ sem' = sem - 1
  /\ pc' = "joined"
  /\ UNCHANGED <<size, sortvars, stepvars, histvars, fmmvars, drivervars, trav, frames, tasks, released>>

NextPfind ==
  \/ PfindStart
  \/ PfindCall
  \/ PfindLeafLock
  \/ PfindLeafPush
  \/ PfindChild
  \/ PfindTaskFind
  \/ PfindTaskLock
  \/ PfindTaskAppend
  \/ PfindTaskRelease
  \/ PfindAcquire

SpecPfind == InitPool /\ [][NextPfind]_vars

(***************************************************************************)
(* The gravitation by FMM: mpi_exchange_cells publishes the sinks of every *)
(* rank, mpi_compute_fmm adds the contributions of the local tree to every *)
(* sink, mpi_gather_cells brings the contributions to the rank that        *)
(* published the sink and reduces them.  The position of a branch is its   *)
(* centre of mass comsum / mass, kept as the pair [n, d].  An accumulator  *)
(* (force, Jacobian, Hessian) is kept as the sequence of the sources whose *)
(* terms were added into it since it was last set to zero, the value being *)
(* the sum of the terms of these sources.                                  *)
(***************************************************************************)
FmmBodies == 5
MaxMacangle == 1

\* sizeof(mpi_cell), in bytes
sizeof_mpi_cell == 392

\* an accumulator set to zero by memset
ZeroAcc == [fc |-> <<>>, dfcdr |-> <<>>, dfcdrdr |-> <<>>]

\* mpi_cell(position, bmin, bmax, id) for the branch b
mpi_cell(T, b) ==
  [position |-> [n |-> T.branch_map_[b].comsum, d |-> T.branch_map_[b].mass],
   bmin |-> T.branch_map_[b].bmin,
   bmax |-> T.branch_map_[b].bmax,
   id |-> b,
   acc |-> ZeroAcc]

\* a default-constructed mpi_cell (recvcells.resize)
NoCell ==
  [position |-> [n |-> 0, d |-> 1], bmin |-> 0, bmax |-> 0, id |-> null_id,
   acc |-> ZeroAcc]

RECURSIVE cells_traverse(_, _, _)
\* the lambda traverse of mpi_exchange_cells: the sinks below b
cells_traverse(T, b, maxMass) ==
  LET br == T.branch_map_[b]
  IN IF br.mass = 0 THEN <<>>
     ELSE IF br.leaf \/ br.mass < maxMass THEN <<mpi_cell(T, b)>>
     ELSE cells_traverse(T, child(b, 0), maxMass)
          \o cells_traverse(T, child(b, 1), maxMass)

\* nrecvcells after the MPI_Allgather and nrecvcells[i] *= sizeof(mpi_cell)
byte_counts(V) == [i \in Ranks |-> Len(V[i]) * sizeof_mpi_cell]

\* noffsets[i+1] = nrecvcells[i], the offset before left out
noffsets_NoSum(n, i) == IF i = 0 THEN 0 ELSE n[i - 1]

RECURSIVE noffsets(_, _)
\* noffsets[0] = 0; noffsets[i+1] += nrecvcells[i] + noffsets[i]
noffsets(n, i) == IF i = 0 THEN 0 ELSE n[i - 1] + noffsets(n, i - 1)

\* the receive buffer of MPI_Allgatherv: total cells, the count[i] bytes
\* of rank i at the byte displacement displs[i]
Allgatherv(send, count, displs, total) ==
  [p \in 1 .. total |->
     LET from == {i \in Ranks :
                    /\ displs[i] \div sizeof_mpi_cell < p
                    /\ p <= (displs[i] + count[i]) \div sizeof_mpi_cell}
     IN IF from = {} THEN NoCell
        ELSE LET i == SetMax(from)
             IN send[i][p - displs[i] \div sizeof_mpi_cell]]

\* a tree per rank with its local bodies, update_COM done; the bodies have
\* the mass 1 but for at most one of them, which has none or MaxMass
InitFmm ==
  /\ pc = "fmm"
  /\ size \in 2 .. MaxRanks
  /\ \E n \in 1 .. FmmBodies :
       \E position \in [1 .. n -> 0 .. (TreeRange - 1)],
          heavy \in 0 .. n, other \in {0, MaxMass},
          owner \in [1 .. n -> 0 .. (size - 1)] :
         /\ \A i, j \in 1 .. n :
              i < j => position[i] <= position[j] /\ owner[i] <= owner[j]
         /\ \A i \in 1 .. n :
              Cardinality({j \in 1 .. n : position[j] = position[i]}) <= MaxLeaf
         /\ entities_ =
              [r \in 0 .. (size - 1) |->
                 LET own == SelectSeq([i \in 1 .. n |-> i],
                                      LAMBDA i : owner[i] = r)
                 IN [e \in 1 .. Len(own) |->
                       [coordinates |-> position[own[e]],
                        mass |-> IF own[e] = heavy THEN other ELSE 1,
                        owner |-> r, locality |-> "LOCAL", body |-> e,
                        global_id |-> own[e]]]]
  /\ tree_ = [r \in 0 .. (size - 1) |->
                update_branches_local(
                  InsertUpTo(NewTree(0, TreeRange), entities_[r],
                             Len(entities_[r])),
                  entities_[r], epsilon_)]
  /\ fmm \in [maxMass : 1 .. (MaxMass + 1), macangle : 0 .. MaxMacangle]
  /\ vcells = <<>> /\ recvcells = <<>> /\ nrecvcells = <<>>
  /\ gathercells = <<>> /\ c2p = <<>>
  /\ DriverIdle /\ PoolIdle
  /\ calls = [r \in 0 .. (size - 1) |-> <<>>]
  /\ smoothinglength_ = 0
  /\ localbodies_ = <<>>
  /\ ghosts_data = <<>>
  /\ rbodies = <<>> /\ input = <<>> /\ master_keys = <<>>
  /\ splitters = <<>> /\ dist = <<>> /\ snapshot = <<>> /\ nsorts = 0

\* mpi_exchange_cells on every rank
ExchangeCells ==
  /\ pc = "fmm"
  /\ vcells' = [r \in Ranks |-> cells_traverse(tree_[r], root_id, fmm.maxMass)]
  /\ nrecvcells' = [r \in Ranks |-> byte_counts(vcells')]
  /\ recvcells' =
       [r \in Ranks |->
          Allgatherv(vcells', nrecvcells'[r],
                     [i \in Ranks |-> noffsets(nrecvcells'[r], i)],
                     SumLen(vcells', size))]
  /\ pc' = "exchanged"
  /\ UNCHANGED <<size, sortvars, stepvars, histvars, poolvars, drivervars,
                 fmm, gathercells, c2p>>

\* |p - q| for two positions, as the fraction [n, d]
pos_distance(p, q) == [n |-> Abs(p.n * q.d - q.n * p.d), d |-> p.d * q.d]

\* MAC(sink, source, macangle): dmax / disttoc < macangle, the quotient
\* being inf or NaN when the two positions are the same
MAC(sink, T, b, macangle) ==
  LET dmax == T.branch_map_[b].bmax - T.branch_map_[b].bmin
      disttoc == pos_distance(sink.position, mpi_cell(T, b).position)
  IN disttoc.n > 0 /\ dmax * disttoc.d < macangle * disttoc.n

\* computeAcceleration with hessian[position] += in the place of the
\* assignment of 0.0 to hessian[position]
computeAcceleration_Sum(acc, source) ==
  [fc |-> Append(acc.fc, source),
   dfcdr |-> Append(acc.dfcdr, source),
   dfcdrdr |-> Append(acc.dfcdrdr, source)]

\* computeAcceleration(sinkPosition, sourcePosition, sourceMass, fc,
\* jacobi, hessian): the term of the source is added to fc and to every
\* jacobi[i*3+j]; every hessian[position] is set to 0.0 and the term of the
\* source added to it
computeAcceleration(acc, source) ==
  [fc |-> Append(acc.fc, source),
   dfcdr |-> Append(acc.dfcdr, source),
   dfcdrdr |-> <<source>>]

RECURSIVE bodies_c2c(_, _, _, _, _, _)
\* the loop on the bodies of a leaf in tree_traversal_c2c, from the k-th
bodies_c2c(r, E, ents, k, sink, acc) ==
  IF k > Len(ents) THEN acc
  ELSE LET bi == E[ents[k]]
       IN IF bi.locality = "LOCAL"
             /\ ~(bi.coordinates <= sink.bmax /\ bi.coordinates >= sink.bmin)
          THEN bodies_c2c(r, E, ents, k + 1, sink,
                          computeAcceleration(
                            acc, [rank |-> r, kind |-> "body", id |-> ents[k]]))
          ELSE bodies_c2c(r, E, ents, k + 1, sink, acc)

RECURSIVE tree_traversal_c2c(_, _, _, _, _, _, _)
\* tree_traversal_c2c(tree, sink, source, fc, jacobi, hessian, macangle) on
\* rank r; operator< and operator> on points are componentwise <= and >=
tree_traversal_c2c(r, T, E, sink, b, acc, macangle) ==
  LET source == T.branch_map_[b]
  IN IF source.mass = 0 THEN acc
     ELSE IF sink.bmin = source.bmin /\ sink.bmax = source.bmax THEN acc
     ELSE IF sink.bmin <= source.bmin /\ sink.bmax >= source.bmax THEN acc
     ELSE IF MAC(sink, T, b, macangle)
          THEN computeAcceleration(acc, [rank |-> r, kind |-> "cell", id |-> b])
     ELSE IF source.leaf THEN bodies_c2c(r, E, source.ents, 1, sink, acc)
     ELSE tree_traversal_c2c(
            r, T, E, sink, child(b, 1),
            tree_traversal_c2c(r, T, E, sink, child(b, 0), acc, macangle),
            macangle)

\* mpi_compute_fmm on every rank: the accumulators of every cell of vcells
\* are set to zero and the tree is traversed from the root
ComputeFmm ==
  /\ pc = "exchanged"
  /\ recvcells' =
       [r \in Ranks |->
          [p \in 1 .. Len(recvcells[r]) |->
             [recvcells[r][p] EXCEPT
                !.acc = tree_traversal_c2c(r, tree_[r], entities_[r],
                                           recvcells[r][p], root_id, ZeroAcc,
                                           fmm.macangle)]]]
  /\ pc' = "computed"
  /\ UNCHANGED <<size, sortvars, stepvars, histvars, poolvars, drivervars,
                 fmm, vcells, nrecvcells, gathercells, c2p>>

RECURSIVE soffsets(_, _)
\* soffsets[0] = 0; soffsets[i] = soffsets[i-1] + nsend[i-1]
soffsets(nsend, i) == IF i = 0 THEN 0 ELSE soffsets(nsend, i - 1) + nsend[i - 1]

\* the cells rank i sends to rank r in the MPI_Alltoallv of
\* mpi_gather_cells: nsend[r] bytes of its vcells from soffsets[r]
SentCells(i, r) ==
  LET first == soffsets(nrecvcells[i], r) \div sizeof_mpi_cell
      n == nrecvcells[i][r] \div sizeof_mpi_cell
  IN [j \in 1 .. n |-> recvcells[i][first + j]]

\* the sum of the loop "Reduce the sum on the COM" that leaves out the
\* block of rank 0
reduce_NoFirst(buffer, ncells, j) ==
  LET Sum[i \in 0 .. (size - 1)] ==
        LET c == buffer[i * ncells + j].acc
        IN IF i = 0 THEN ZeroAcc
           ELSE [fc |-> Sum[i - 1].fc \o c.fc,
                 dfcdr |-> Sum[i - 1].dfcdr \o c.dfcdr,
                 dfcdrdr |-> Sum[i - 1].dfcdrdr \o c.dfcdrdr]
  IN [buffer[j] EXCEPT !.acc = Sum[size - 1]]

\* recvcells[j] after the loop "Reduce the sum on the COM": the blocks of
\* the ranks 1 .. size-1 are added into the block of rank 0
reduce(buffer, ncells, j) ==
  LET Sum[i \in 0 .. (size - 1)] ==
        LET c == buffer[i * ncells + j].acc
        IN IF i = 0 THEN c
           ELSE [fc |-> Sum[i - 1].fc \o c.fc,
                 dfcdr |-> Sum[i - 1].dfcdr \o c.dfcdr,
                 dfcdrdr |-> Sum[i - 1].dfcdrdr \o c.dfcdrdr]
  IN [buffer[j] EXCEPT !.acc = Sum[size - 1]]

\* the asserts of the reduction hold for the receive buffer of rank r
reduce_asserts(buffer, ncells) ==
  \A i \in 1 .. (size - 1), j \in 1 .. ncells :
    /\ buffer[j].position = buffer[i * ncells + j].position
    /\ buffer[j].id = buffer[i * ncells + j].id

RECURSIVE sink_bodies(_, _, _)
\* the bodies sink_traversal_c2p reaches below b (subparts), in its order
sink_bodies(T, E, b) ==
  LET br == T.branch_map_[b]
  IN IF br.mass <= 0 THEN <<>>
     ELSE IF br.leaf
          THEN SelectSeq(br.ents, LAMBDA ent : E[ent].locality = "LOCAL")
     ELSE sink_bodies(T, E, child(b, 0)) \o sink_bodies(T, E, child(b, 1))

\* mpi_gather_cells on every rank: the receive buffer (the block of rank i
\* at i * ncells), the reduced cells, and for each sink the bodies the
\* reduced accumulators are applied to
GatherCells ==
  /\ pc = "computed"
  /\ gathercells' =
       [r \in Ranks |->
          LET ncells == nrecvcells[r][r] \div sizeof_mpi_cell
              buffer == [p \in 1 .. ncells * size |->
                           LET i == (p - 1) \div ncells
                               sent == SentCells(i, r)
                           IN IF (p - i * ncells) <= Len(sent)
                              THEN sent[p - i * ncells] ELSE NoCell]
          IN [buffer |-> buffer,
              asserts |-> reduce_asserts(buffer, ncells),
              reduced |-> [j \in 1 .. ncells |-> reduce(buffer, ncells, j)],
              subparts |-> [j \in 1 .. ncells |->
                              sink_bodies(tree_[r], entities_[r], buffer[j].id)]]]
  /\ pc' = "gathered"
  /\ UNCHANGED <<size, sortvars, stepvars, histvars, poolvars, drivervars,
                 fmm, vcells, recvcells, nrecvcells, c2p>>

NextFmm ==
  \/ ExchangeCells
  \/ ComputeFmm
  \/ GatherCells

SpecFmm == InitFmm /\ [][NextFmm]_vars

(***************************************************************************)
(* sink_traversal_c2p on a leaf: the reduced accumulators fc, jacobi[9],   *)
(* hessian[27] of a sink are applied to the bodies of the leaf.  Points    *)
(* have the components 0 .. 2; the values are integers and the entries of  *)
(* hessian even, so that 1./2. * tmpVector[i] is exact.                    *)
(***************************************************************************)
MaxC2pBodies == 2
MaxCoordinate == 1

Dim3 == 0 .. 2

Points3 == [Dim3 -> 0 .. MaxCoordinate]

\* a vector of n entries, 0 but for the entry at which, which is v
OneHot(n, which, v) == [x \in 0 .. (n - 1) |-> IF x = which THEN v ELSE 0]

\* sinkPosition - bi->getPosition(), the line that is commented out
diffPos_Reversed(position, sinkPosition) ==
  [i \in Dim3 |-> sinkPosition[i] - position[i]]

\* point_t diffPos = bi->getPosition() - sinkPosition
diffPos_(position, sinkPosition) ==
  [i \in Dim3 |-> position[i] - sinkPosition[i]]

\* grav[i] after "The Jacobi": grav = fc; grav[i] += jacobi[i*3+j]*diffPos[j]
grav_jacobi(fc, jacobi, diffPos, i) ==
  LET After[j \in 0 .. 3] ==
        IF j = 0 THEN fc[i] ELSE After[j - 1] + jacobi[i * 3 + (j - 1)] * diffPos[j - 1]
  IN After[3]

\* tmpMatrix[i*3+j] after the loop on k: each turn assigns 0.0 and adds
\* diffPos[k]*hessian[i*9+j+k*3]
tmpMatrix(hessian, diffPos, i, j) ==
  LET After[k \in 0 .. 2] == 0 + diffPos[k] * hessian[i * 9 + j + k * 3]
  IN After[2]

\* tmpVector[i] after the loop on j: each turn assigns 0.0 and adds
\* tmpMatrix[i*3+j]*diffPos[j]
tmpVector(hessian, diffPos, i) ==
  LET After[j \in 0 .. 2] == 0 + tmpMatrix(hessian, diffPos, i, j) * diffPos[j]
  IN After[2]

\* the value handed to setGravForce for a body at position
c2p_grav(fc, jacobi, hessian, position, sinkPosition) ==
  LET diffPos == diffPos_(position, sinkPosition)
  IN [i \in Dim3 |->
        grav_jacobi(fc, jacobi, diffPos, i) + tmpVector(hessian, diffPos, i) \div 2]

InitC2p ==
  /\ pc = "c2p"
  /\ size = 1
  /\ \E f \in 0 .. 2, a \in 0 .. 8, h \in 0 .. 26, s \in 0 .. MaxCoordinate,
        n \in 1 .. MaxC2pBodies :
       \E position \in [1 .. n -> Points3], local \in BOOLEAN :
         c2p = [fc |-> OneHot(3, f, 1),
                jacobi |-> OneHot(9, a, 1),
                hessian |-> OneHot(27, h, 2),
                sinkPosition |-> [i \in Dim3 |-> s],
                bodies |-> [k \in 1 .. n |->
                              [position |-> position[k],
                               local |-> k > 1 \/ local]],
                grav |-> [k \in 1 .. n |-> <<>>],
                next |-> 1,
                neighbors |-> <<>>]
  /\ fmm = <<>> /\ vcells = <<>> /\ recvcells = <<>> /\ nrecvcells = <<>>
  /\ gathercells = <<>>
  /\ DriverIdle /\ PoolIdle
  /\ smoothinglength_ = 0 /\ localbodies_ = <<>> /\ tree_ = <<>>
  /\ entities_ = <<>> /\ ghosts_data = <<>> /\ calls = <<>> /\ snapshot = <<>>
  /\ rbodies = <<>> /\ input = <<>> /\ master_keys = <<>>
  /\ splitters = <<>> /\ dist = <<>> /\ nsorts = 0

\* one turn of the loop "for(auto bi: *b)" of sink_traversal_c2p, for the
\* body c2p.next
C2pBody ==
  /\ pc = "c2p"
  /\ c2p.next <= Len(c2p.bodies)
  /\ IF ~c2p.bodies[c2p.next].local
     THEN c2p' = [c2p EXCEPT !.next = @ + 1]
     ELSE c2p' = [c2p EXCEPT
                    !.grav[c2p.next] =
                       c2p_grav(c2p.fc, c2p.jacobi, c2p.hessian,
                                c2p.bodies[c2p.next].position, c2p.sinkPosition),
                    !.neighbors = Append(@, c2p.next),
                    !.next = @ + 1]
  /\ UNCHANGED <<pc, size, sortvars, stepvars, histvars, poolvars, drivervars,
                 fmm, vcells, recvcells, nrecvcells, gathercells>>

NextC2p == C2pBody

SpecC2p == InitC2p /\ [][NextC2p]_vars

(***************************************************************************)
(* The main loop of the sedov driver (mpi_init_task) with the calls of     *)
(* body_system::update_iteration: driver.log names the phases run so far   *)
(* in the current simulation step, one entry per call.                     *)
(***************************************************************************)
MaxIterations == 3

\* the call made at pc has returned: its phases are logged, and control is
\* at next
Phase(at, names, next) ==
  /\ pc = at
  /\ driver' = [driver EXCEPT !.log = @ \o names]
  /\ pc' = next
  /\ UNCHANGED <<size, sortvars, stepvars, histvars, poolvars, fmmvars, omp, lookup>>

InitDriver ==
  /\ pc = "do"
  /\ size \in 1 .. MaxRanks
  /\ \E initial_iteration \in 0 .. 1, n \in 1 .. MaxIterations,
        periodic \in BOOLEAN :
       driver = [initial_iteration |-> initial_iteration,
                 iteration |-> initial_iteration + 1,
                 final_iteration |-> initial_iteration + n,
                 periodic_boundary |-> periodic,
                 log |-> <<>>]
  /\ omp = <<>> /\ lookup = <<>>
  /\ FmmIdle /\ PoolIdle
  /\ smoothinglength_ = 0 /\ localbodies_ = <<>> /\ tree_ = <<>>
  /\ entities_ = <<>> /\ ghosts_data = <<>> /\ calls = <<>> /\ snapshot = <<>>
  /\ rbodies = <<>> /\ input = <<>> /\ master_keys = <<>>
  /\ splitters = <<>> /\ dist = <<>> /\ nsorts = 0

\* analysis::screen_output(); MPI_Barrier; update_iteration is entered: the
\* log of the step starts
ScreenOutput ==
  /\ pc = "do"
  /\ driver' = [driver EXCEPT !.log = <<>>]
  /\ pc' = "update_iteration"
  /\ UNCHANGED <<size, sortvars, stepvars, histvars, poolvars, fmmvars, omp, lookup>>

\* update_iteration: delete tree_, pboundary_clean, getSmoothinglength,
\* pboundary_generate
PeriodicBoundary ==
  Phase("update_iteration",
        IF driver.periodic_boundary THEN <<"pboundary">> ELSE <<>>, "range")

\* update_iteration: mpi_compute_range, new tree_topology_t, set_key
ComputeRange == Phase("range", <<"range">>, "mpi_qsort")

\* update_iteration: tcolorer_.mpi_qsort and the std::sort by (key, id)
DistributedSort == Phase("mpi_qsort", <<"sort">>, "insert")

\* update_iteration: make_entity and insert for every local body
TreeBuild == Phase("insert", <<"tree">>, "update_COM")

\* update_iteration: post_order_traversal(update_COM) on the local tree
FirstUpdateCOM == Phase("update_COM", <<"COM">>, "mpi_branches_exchange")

\* update_iteration: tcolorer_.mpi_branches_exchange
BranchExchange == Phase("mpi_branches_exchange", <<"branches">>, "update_COM_2")

\* update_iteration: post_order_traversal(update_COM) after the exchange
SecondUpdateCOM == Phase("update_COM_2", <<"COM">>, "mpi_compute_ghosts")

\* update_iteration: tcolorer_.mpi_compute_ghosts, mpi_refresh_ghosts
ComputeGhosts == Phase("mpi_compute_ghosts", <<"ghosts", "refresh">>, "density")

\* bs.apply_in_smoothinglength(physics::compute_density_pressure_soundspeed)
KernelDensity == Phase("density", <<"kernel">>, "update_neighbors")

\* bs.update_neighbors(): mpi_refresh_ghosts
UpdateNeighbors == Phase("update_neighbors", <<"refresh">>, "hydro")

\* bs.apply_in_smoothinglength(physics::compute_hydro_acceleration)
KernelHydro == Phase("hydro", <<"kernel">>, "dudt")

\* bs.apply_in_smoothinglength(physics::compute_dudt)
KernelDudt == Phase("dudt", <<"kernel">>, "leapfrog")

\* bs.apply_all(leapfrog_integration_first_step or leapfrog_integration),
\* bs.apply_all(physics::dudt_integration)
Integration ==
  Phase("leapfrog",
        <<IF driver.iteration = driver.initial_iteration + 1
          THEN "leapfrog_first" ELSE "leapfrog", "dudt_integration">>,
        "while")

\* ++physics::iteration; while(physics::iteration <= final_iteration)
NextIteration ==
  /\ pc = "while"
  /\ driver' = [driver EXCEPT !.iteration = @ + 1]
  /\ pc' = IF driver.iteration + 1 <= driver.final_iteration THEN "do" ELSE "end"
  /\ UNCHANGED <<size, sortvars, stepvars, histvars, poolvars, fmmvars, omp, lookup>>

NextDriver ==
  \/ ScreenOutput
  \/ PeriodicBoundary
  \/ ComputeRange
  \/ DistributedSort
  \/ TreeBuild
  \/ FirstUpdateCOM
  \/ BranchExchange
  \/ SecondUpdateCOM
  \/ ComputeGhosts
  \/ KernelDensity
  \/ UpdateNeighbors
  \/ KernelHydro
  \/ KernelDudt
  \/ Integration
  \/ NextIteration

SpecDriver == InitDriver /\ [][NextDriver]_vars

(***************************************************************************)
(* physics::set_adaptive_timestep run by the threads of one rank.          *)
(* omp.dt is physics::dt, omp.critical the thread inside the critical      *)
(* section (0: none), omp.th[t] the position of thread t, its dtmin, the   *)
(* value of dt it read last and the value it is writing.  A read and a     *)
(* write of dt take time: each has a step that starts it and a step that   *)
(* ends it.  A read that overlaps a write is a data race: it yields the    *)
(* value before the write or the value being written.                      *)
(***************************************************************************)
MaxDt == 2

\* dt and dtmin are multiples of DtUnit, so that dt/2.0 is exact for one
\* halving per thread
DtUnit == Pow2(MaxThreads)

OmpThreads == DOMAIN omp.th

Reading(t) == omp.th[t].pc \in {"if1_r", "min_r", "if2_r", "mul_r"}

Writing(t) == omp.th[t].pc \in {"assign1_w", "assign2_w"}

\* the values a read of physics::dt by thread t can yield
ReadValues(t) ==
  {omp.dt} \cup {omp.th[u].pending : u \in {v \in OmpThreads \ {t} : Writing(v)}}

\* the positions of a thread inside the structured block that follows
\* #pragma omp critical: the first if statement
critical_region ==
  {"if1", "if1_r", "min", "min_r", "assign1", "assign1_w", "leave"}

InitOmp ==
  /\ pc = "omp"
  /\ size = 1
  /\ \E n \in 1 .. MaxThreads, dt \in 1 .. MaxDt :
       \E dtmin \in [1 .. n -> 1 .. (2 * MaxDt + 1)] :
         omp = [dt |-> DtUnit * dt,
                critical |-> 0,
                th |-> [t \in 1 .. n |->
                          [pc |-> "enter", dtmin |-> DtUnit * dtmin[t],
                           val |-> 0, pending |-> 0]]]
  /\ driver = <<>> /\ lookup = <<>>
  /\ FmmIdle /\ PoolIdle
  /\ smoothinglength_ = 0 /\ localbodies_ = <<>> /\ tree_ = <<>>
  /\ entities_ = <<>> /\ ghosts_data = <<>> /\ calls = <<>> /\ snapshot = <<>>
  /\ rbodies = <<>> /\ input = <<>> /\ master_keys = <<>>
  /\ splitters = <<>> /\ dist = <<>> /\ nsorts = 0

OmpStep(t, th, dt, critical) ==
  /\ pc = "omp"
  /\ omp' = [omp EXCEPT !.th[t] = th, !.dt = dt, !.critical = critical]
  /\ UNCHANGED <<pc, size, sortvars, stepvars, histvars, poolvars, fmmvars,
                 driver, lookup>>

\* #pragma omp critical: the thread waits until no thread is inside
EnterCritical(t) ==
  /\ omp.th[t].pc = "enter"
  /\ omp.critical = 0
  /\ OmpStep(t, [omp.th[t] EXCEPT !.pc = "if1"], omp.dt, t)

\* a read of physics::dt starts
BeginRead(t) ==
  /\ omp.th[t].pc \in {"if1", "min", "if2", "mul"}
  /\ OmpStep(t, [omp.th[t] EXCEPT !.pc = CASE @ = "if1" -> "if1_r"
                                              [] @ = "min" -> "min_r"
                                              [] @ = "if2" -> "if2_r"
                                              [] @ = "mul" -> "mul_r"],
             omp.dt, omp.critical)

\* if (dtmin < physics::dt)
EndIf1(t) ==
  /\ omp.th[t].pc = "if1_r"
  /\ \E v \in ReadValues(t) :
       OmpStep(t, [omp.th[t] EXCEPT !.val = v,
                     !.pc = IF omp.th[t].dtmin < v THEN "min" ELSE "leave"],
               omp.dt, omp.critical)

\* std::min(dtmin, physics::dt/2.0)
EndMin(t) ==
  /\ omp.th[t].pc = "min_r"
  /\ \E v \in ReadValues(t) :
       OmpStep(t, [omp.th[t] EXCEPT !.val = v, !.pc = "assign1",
                     !.pending = Min(omp.th[t].dtmin, v \div 2)],
               omp.dt, omp.critical)

\* a write of physics::dt starts
BeginWrite(t) ==
  /\ omp.th[t].pc \in {"assign1", "assign2"}
  /\ OmpStep(t, [omp.th[t] EXCEPT !.pc = IF @ = "assign1" THEN "assign1_w"
                                                        ELSE "assign2_w"],
             omp.dt, omp.critical)

\* physics::dt = std::min(...) is written
EndAssign1(t) ==
  /\ omp.th[t].pc = "assign1_w"
  /\ OmpStep(t, [omp.th[t] EXCEPT !.pc = "leave"], omp.th[t].pending,
             omp.critical)

\* the end of the structured block of the critical construct
LeaveCritical(t) ==
  /\ omp.th[t].pc = "leave"
  /\ OmpStep(t, [omp.th[t] EXCEPT !.pc = "if2"], omp.dt, 0)

\* if (dtmin > 2.0*physics::dt)
EndIf2(t) ==
  /\ omp.th[t].pc = "if2_r"
  /\ \E v \in ReadValues(t) :
       OmpStep(t, [omp.th[t] EXCEPT !.val = v,
                     !.pc = IF omp.th[t].dtmin > 2 * v THEN "mul" ELSE "done"],
               omp.dt, omp.critical)

\* physics::dt*2.0
EndMul(t) ==
  /\ omp.th[t].pc = "mul_r"
  /\ \E v \in ReadValues(t) :
       OmpStep(t, [omp.th[t] EXCEPT !.val = v, !.pc = "assign2",
                     !.pending = v * 2],
               omp.dt, omp.critical)

\* physics::dt = physics::dt*2.0 is written
EndAssign2(t) ==
  /\ omp.th[t].pc = "assign2_w"
  /\ OmpStep(t, [omp.th[t] EXCEPT !.pc = "done"], omp.th[t].pending,
             omp.critical)

NextOmp ==
  \/ \E t \in OmpThreads : EnterCritical(t)
  \/ \E t \in OmpThreads : BeginRead(t)
  \/ \E t \in OmpThreads : EndIf1(t)
  \/ \E t \in OmpThreads : EndMin(t)
  \/ \E t \in OmpThreads : BeginWrite(t)
  \/ \E t \in OmpThreads : EndAssign1(t)
  \/ \E t \in OmpThreads : LeaveCritical(t)
  \/ \E t \in OmpThreads : EndIf2(t)
  \/ \E t \in OmpThreads : EndMul(t)
  \/ \E t \in OmpThreads : EndAssign2(t)

SpecOmp == InitOmp /\ [][NextOmp]_vars

(***************************************************************************)
(* Lookups of a branch by key in branch_map_: get(branch_id_t) and         *)
(* child(branch_t*, size_t).  lookup holds the operation, the key, the     *)
(* outcome and the tree before the call.                                   *)
(***************************************************************************)

\* get(id): assert(itr != branch_map_.end()); return &itr->second
get(T, id) ==
  IF id \notin DOMAIN T.branch_map_
  THEN [outcome |-> "assert", branch |-> null_id]
  ELSE [outcome |-> "branch", branch |-> id]

\* child(b, ci): bid = b->id(); bid.push(ci); nullptr when find(bid) is end()
child_find(T, b, ci) ==
  LET bid == push(b, ci)
  IN IF bid \notin DOMAIN T.branch_map_
     THEN [outcome |-> "nullptr", branch |-> null_id]
     ELSE [outcome |-> "branch", branch |-> bid]

\* the keys a caller passes: those of the branches and of their children
LookupKeys(T) == 1 .. (2 * SetMax(DOMAIN T.branch_map_) + 1)

Get ==
  /\ pc = "tree"
  /\ \E id \in LookupKeys(tree_[0]) :
       lookup' = [op |-> "get", key |-> id, result |-> get(tree_[0], id),
                  before |-> tree_[0]]
  /\ pc' = "looked"
  /\ UNCHANGED <<size, sortvars, stepvars, histvars, poolvars, fmmvars, omp,
                 driver>>

Child ==
  /\ pc = "tree"
  /\ \E b \in DOMAIN tree_[0].branch_map_, ci \in 0 .. (num_children - 1) :
       lookup' = [op |-> "child", key |-> push(b, ci),
                  result |-> child_find(tree_[0], b, ci),
                  before |-> tree_[0]]
  /\ pc' = "looked"
  /\ UNCHANGED <<size, sortvars, stepvars, histvars, poolvars, fmmvars, omp,
                 driver>>

NextLookup ==
  \/ MakeAndInsert
  \/ Get
  \/ Child

SpecLookup == InitTree /\ [][NextLookup]_vars

(***************************************************************************)
(* One kernel pass: apply_sub_cells makes an OpenMP task of every work     *)
(* cell, and a task calls the physics callable for the local entities of   *)
(* its cell, one after the other.  omp.tasks[k] holds the invocations of   *)
(* task k, the one it is at and whether that one is under way; any number  *)
(* of tasks run at the same time.  A callable is given by the attributes   *)
(* of the body it writes and reads.                                        *)
(***************************************************************************)
callables ==
  {"compute_density_pressure_soundspeed", "compute_hydro_acceleration",
   "compute_dudt", "compute_dedt", "compute_dadt"}

\* mu(source, nb) and viscosity(source, nb): what is read of nb
viscosity_reads ==
  {"density", "soundspeed", "smoothinglength", "velocityhalf", "position"}

\* viscosity(source, nb) that caches the maximum in the neighbor as well
neighbor_reads_Mumax(callable) ==
  IF callable = "compute_density_pressure_soundspeed"
  THEN {"position", "smoothinglength", "mass"}
  ELSE viscosity_reads \cup {"mumax", "mass", "velocity", "pressure"}

\* the attributes the callable reads of a neighbor (nb->get...)
neighbor_reads(callable) ==
  CASE callable = "compute_density_pressure_soundspeed" ->
         {"position", "smoothinglength", "mass"}
    [] callable = "compute_hydro_acceleration" ->
         viscosity_reads \cup {"pressure", "mass"}
    [] callable = "compute_dudt" ->
         viscosity_reads \cup {"velocity", "mass"}
    [] callable = "compute_dedt" ->
         viscosity_reads \cup {"velocity", "mass", "pressure"}
    [] callable = "compute_dadt" ->
         viscosity_reads \cup {"velocity", "mass"}

\* the attributes the callable writes of its source (source->set...);
\* viscosity() writes the Mumax of the source
source_writes(callable) ==
  CASE callable = "compute_density_pressure_soundspeed" ->
         {"density", "internalenergy", "pressure", "soundspeed"}
    [] callable = "compute_hydro_acceleration" -> {"mumax", "acceleration"}
    [] callable = "compute_dudt" -> {"mumax", "dudt"}
    [] callable = "compute_dedt" -> {"mumax", "dudt"}
    [] callable = "compute_dadt" -> {"dadt"}

\* the attributes the callable writes of a neighbor (nb->set...): none
neighbor_writes(callable) == {}

\* the accesses of one invocation: <<entity, attribute>> pairs
Writes(callable, call) ==
  ({call.ent} \X source_writes(callable))
    \cup (Range(call.neighbors) \X neighbor_writes(callable))

Reads(callable, call) ==
  ({call.ent} \X (neighbor_reads(callable) \cup source_writes(callable)))
    \cup (Range(call.neighbors) \X neighbor_reads(callable))

\* a tree with its entities, update_branches(epsilon) done
InitPass ==
  /\ pc = "updated"
  /\ size = 1
  /\ \E n \in 1 .. TreeEntities :
       \E position \in [1 .. n -> 0 .. (TreeRange - 1)],
          local \in [1 .. n -> BOOLEAN] :
         /\ \A i, j \in 1 .. n : i < j => position[i] <= position[j]
         /\ \A i \in 1 .. n :
              Cardinality({j \in 1 .. n : position[j] = position[i]}) <= MaxLeaf
         /\ entities_ =
              [r \in {0} |->
                 [e \in 1 .. n |->
                    [coordinates |-> position[e], mass |-> 1,
                     owner |-> IF local[e] THEN 0 ELSE 1,
                     locality |-> IF local[e] THEN "LOCAL" ELSE "NONLOCAL",
                     body |-> e, global_id |-> e]]]
  /\ \E epsilon \in 0 .. MaxRadius :
       tree_ = [r \in {0} |->
                  update_branches(
                    InsertUpTo(NewTree(0, TreeRange), entities_[r],
                               Len(entities_[r])),
                    entities_[r], epsilon)]
  /\ omp = <<>> /\ driver = <<>> /\ lookup = <<>>
  /\ FmmIdle /\ PoolIdle
  /\ calls = [r \in {0} |-> <<>>]
  /\ smoothinglength_ = 0 /\ localbodies_ = <<>> /\ ghosts_data = <<>>
  /\ snapshot = <<>>
  /\ rbodies = <<>> /\ input = <<>> /\ master_keys = <<>>
  /\ splitters = <<>> /\ dist = <<>> /\ nsorts = 0

\* the tasks of the pass under way
PassTasks == IF pc = "pass" THEN DOMAIN omp.tasks ELSE {}

PassStep(ts) ==
  /\ pc = "pass"
  /\ omp' = [omp EXCEPT !.tasks = ts]
  /\ UNCHANGED <<pc, size, sortvars, stepvars, histvars, poolvars, fmmvars,
                 driver, lookup>>

\* apply_sub_cells(root, radius, MAC, ncritical, ef): the single thread has
\* made the tasks
StartPass ==
  /\ pc = "updated"
  /\ \E callable \in callables, radius \in 0 .. MaxRadius,
        ncritical \in 0 .. MaxNcritical :
       LET cells == work_cells(tree_[0], root_id, ncritical)
       IN omp' = [callable |-> callable,
                  tasks |-> [k \in 1 .. Len(cells) |->
                               [calls |-> force_calc(
                                            tree_[0], entities_[0], cells[k],
                                            sub_cells_inter(tree_[0], cells[k],
                                                            ncritical32),
                                            radius),
                                next |-> 1, running |-> FALSE]]]
  /\ pc' = "pass"
  /\ UNCHANGED <<size, sortvars, stepvars, histvars, poolvars, fmmvars,
                 driver, lookup>>

\* a task enters ef(ent, neighbors) for its next entity
BeginCall(k) ==
  /\ ~omp.tasks[k].running
  /\ omp.tasks[k].next <= Len(omp.tasks[k].calls)
  /\ PassStep([omp.tasks EXCEPT ![k].running = TRUE])

\* ef(ent, neighbors) returns
EndCall(k) ==
  /\ omp.tasks[k].running
  /\ PassStep([omp.tasks EXCEPT ![k].running = FALSE, ![k].next = @ + 1])

\* #pragma omp taskwait: every task has ended
TaskWait ==
  /\ pc = "pass"
  /\ \A k \in DOMAIN omp.tasks :
       ~omp.tasks[k].running /\ omp.tasks[k].next > Len(omp.tasks[k].calls)
  /\ pc' = "applied"
  /\ UNCHANGED <<size, sortvars, stepvars, histvars, poolvars, fmmvars,
                 drivervars>>

NextPass ==
  \/ StartPass
  \/ \E k \in PassTasks : BeginCall(k)
  \/ \E k \in PassTasks : EndCall(k)
  \/ TaskWait

SpecPass == InitPass /\ [][NextPass]_vars

(***************************************************************************)
(* insert(ent) call by call.  frames is the call stack, the innermost call *)
(* last: a call of insert(ent, max_depth) or a call of refine_(b) with the *)
(* position i of its loop over the entities of b.  The entities are put in *)
(* the tree one after the other; no limit is put on the number of entities *)
(* of one position.                                                        *)
(***************************************************************************)
\* the depth of the deepest key: the bits a key has for a dimension
MaxBits == 2

\* the entities insert(ent) has been called for
Inserted == DOMAIN tree_[0].branch_id_

InitInsert ==
  /\ pc = "insert"
  /\ size = 1
  /\ \E n \in 1 .. TreeEntities :
       \E position \in [1 .. n -> 0 .. (TreeRange - 1)] :
         entities_ =
           [r \in {0} |->
              [e \in 1 .. n |->
                 [coordinates |-> position[e], mass |-> 1, owner |-> 0,
                  locality |-> "LOCAL", body |-> e, global_id |-> e]]]
  /\ tree_ = [r \in {0} |-> NewTree(0, TreeRange)]
  /\ DriverIdle /\ FmmIdle /\ PoolIdle
  /\ calls = [r \in {0} |-> <<>>]
  /\ smoothinglength_ = 0 /\ localbodies_ = <<>> /\ ghosts_data = <<>>
  /\ snapshot = <<>>
  /\ rbodies = <<>> /\ input = <<>> /\ master_keys = <<>>
  /\ splitters = <<>> /\ dist = <<>> /\ nsorts = 0

InsertStep(T, fs) ==
  /\ pc = "insert"
  /\ tree_' = [tree_ EXCEPT ![0] = T]
  /\ frames' = fs
  /\ UNCHANGED <<pc, size, sortvars, entities_, calls, smoothinglength_,
                 localbodies_, ghosts_data, histvars, trav, tasks, sem,
                 released, fmmvars, drivervars>>

\* insert(ent): insert(ent, max_depth_) is called for the next entity
InsertEntity ==
  /\ frames = <<>>
  /\ \E ent \in DOMAIN entities_[0] \ Inserted :
       /\ \A e \in DOMAIN entities_[0] \ Inserted : ent <= e
       /\ InsertStep(tree_[0],
                     <<[op |-> "insert", ent |-> ent, b |-> root_id,
                        max_depth |-> tree_[0].max_depth_, i |-> 0]>>)

\* insert(ent, max_depth) up to its switch: the entity is put in the branch
\* find_parent gives; refine_(b) is called if the branch asks for it
InsertCall ==
  /\ frames # <<>>
  /\ Top.op = "insert"
  /\ LET T == tree_[0]
         bid == to_branch_id(T, entities_[0][Top.ent].coordinates,
                             Top.max_depth)
         b == find_parent(T, bid, Top.max_depth)
         T1 == [T EXCEPT !.branch_id_ = (Top.ent :> b) @@ @,
                         !.branch_map_[b].ents = Append(@, Top.ent)]
     IN IF Len(T1.branch_map_[b].ents) > MaxLeaf
        THEN InsertStep(T1, Append(Popped,
                                   [op |-> "refine_", ent |-> 0, b |-> b,
                                    max_depth |-> id_depth(b) + 1, i |-> 0]))
        ELSE InsertStep(T1, Popped)

\* refine_(b) up to its second loop: the children are made
RefineChildren ==
  /\ frames # <<>>
  /\ Top.op = "refine_" /\ Top.i = 0
  \* the model follows the recursion one level below the deepest key
  /\ Top.max_depth <= MaxBits + 1
  /\ InsertStep([tree_[0] EXCEPT
                   !.branch_map_ =
                      @ @@ [c \in {push(Top.b, i) :
                                     i \in 0 .. (num_children - 1)}
                              |-> NewBranch],
                   !.max_depth_ = Max(@, Top.max_depth)],
                [frames EXCEPT ![Len(frames)].i = 1])

\* for(auto ent : b) insert(ent, depth)
RefineInsert ==
  /\ frames # <<>>
  /\ Top.op = "refine_" /\ Top.i >= 1
  /\ Top.i <= Len(tree_[0].branch_map_[Top.b].ents)
  /\ InsertStep(tree_[0],
                Append([frames EXCEPT ![Len(frames)].i = @ + 1],
                       [op |-> "insert",
                        ent |-> tree_[0].branch_map_[Top.b].ents[Top.i],
                        b |-> root_id, max_depth |-> Top.max_depth,
                        i |-> 0]))

\* b.set_leaf(false); b.clear(); b.reset(); refine_ and the insert that
\* called it return
RefineReturn ==
  /\ frames # <<>>
  /\ Top.op = "refine_" /\ Top.i >= 1
  /\ Top.i > Len(tree_[0].branch_map_[Top.b].ents)
  /\ InsertStep([tree_[0] EXCEPT
                   !.branch_map_[Top.b] = [NewBranch EXCEPT !.leaf = FALSE]],
                Popped)

NextInsert ==
  \/ InsertEntity
  \/ InsertCall
  \/ RefineChildren
  \/ RefineInsert
  \/ RefineReturn

SpecInsert == InitInsert /\ [][NextInsert]_vars

(***************************************************************************)
(* apply_sub_cells, find_sub_cells and find_sub_cells_mass step by step.   *)
(* frames is the stack stk of branch pointers, the top last, null_id       *)
(* standing for nullptr.  lookup holds the function, its criterion, the    *)
(* branch c whose children are being visited (open), the position i of     *)
(* that loop, the branches selected so far (those a task is made for, in   *)
(* apply_sub_cells) and whether a child of a leaf has been asked for.      *)
(* Reading through nullptr is undefined: the program stops ("fault"), or   *)
(* goes on with any value for what it read.                                *)
(***************************************************************************)
\* once nullptr is on the stack, the stack and the list of the selected
\* branches are followed up to this length
MaxStk == 2

sub_cells_functions ==
  {"apply_sub_cells", "find_sub_cells", "find_sub_cells_mass"}

\* the test that selects a branch that is not a leaf with sub-entities
sub_cells_criterion(f, br, criterion) ==
  CASE f = "apply_sub_cells" ->
         br.sub_entities < criterion /\ br.sub_entities > 0
    [] f = "find_sub_cells" ->
         br.sub_entities <= criterion /\ br.sub_entities > 0
    [] f = "find_sub_cells_mass" ->
         br.mass <= criterion /\ br.sub_entities > 0

InitCells ==
  /\ pc = "updated"
  /\ size = 1
  /\ \E n \in 0 .. TreeEntities :
       \E position \in [1 .. n -> 0 .. (TreeRange - 1)] :
         /\ \A i, j \in 1 .. n : i < j => position[i] <= position[j]
         /\ \A i \in 1 .. n :
              Cardinality({j \in 1 .. n : position[j] = position[i]}) <= MaxLeaf
         /\ entities_ =
              [r \in {0} |->
                 [e \in 1 .. n |->
                    [coordinates |-> position[e], mass |-> 1, owner |-> 0,
                     locality |-> "LOCAL", body |-> e, global_id |-> e]]]
  /\ tree_ = [r \in {0} |->
                update_branches(
                  InsertUpTo(NewTree(0, TreeRange), entities_[r],
                             Len(entities_[r])),
                  entities_[r], 0)]
  /\ DriverIdle /\ FmmIdle /\ PoolIdle
  /\ calls = [r \in {0} |-> <<>>]
  /\ smoothinglength_ = 0 /\ localbodies_ = <<>> /\ ghosts_data = <<>>
  /\ snapshot = <<>>
  /\ rbodies = <<>> /\ input = <<>> /\ master_keys = <<>>
  /\ splitters = <<>> /\ dist = <<>> /\ nsorts = 0

CellsStep(stk, l, p) ==
  /\ frames' = stk
  /\ lookup' = l
  /\ pc' = p
  /\ UNCHANGED <<size, sortvars, stepvars, histvars, trav, tasks, sem,
                 released, fmmvars, omp, driver>>

\* stk.push(b) with b the root
StartCells ==
  /\ pc = "updated"
  /\ \E f \in sub_cells_functions, criterion \in 0 .. MaxNcritical :
       CellsStep(<<root_id>>,
                 [f |-> f, criterion |-> criterion, open |-> FALSE,
                  c |-> null_id, i |-> 0, search_list |-> <<>>,
                  leaf_child |-> FALSE],
                 "cells")

\* c = stk.top(); stk.pop() and the two tests on c
PopCell ==
  /\ pc = "cells" /\ ~lookup.open /\ frames # <<>>
  /\ LET c == Top
         select == [lookup EXCEPT !.search_list = Append(@, c)]
         visit == [lookup EXCEPT !.open = TRUE, !.c = c, !.i = 0]
     IN IF c = null_id
        THEN \* c->is_leaf() through nullptr
             \/ CellsStep(Popped, lookup, "fault")
             \/ /\ Len(lookup.search_list) < MaxStk
                /\ CellsStep(Popped, select, "cells")
             \/ CellsStep(Popped, visit, "cells")
        ELSE LET br == tree_[0].branch_map_[c]
             IN IF \/ br.leaf /\ br.sub_entities > 0
                   \/ sub_cells_criterion(lookup.f, br, lookup.criterion)
                THEN CellsStep(Popped, select, "cells")
                ELSE CellsStep(Popped, visit, "cells")

\* next = child(c, i); if(next->sub_entities() > 0) stk.push(next)
ChildCell ==
  /\ pc = "cells" /\ lookup.open /\ lookup.i < num_children
  /\ LET next == IF lookup.c = null_id
                 THEN [outcome |-> "nullptr", branch |-> null_id]
                 ELSE child_find(tree_[0], lookup.c, lookup.i)
         asked == [lookup EXCEPT
                     !.i = @ + 1,
                     !.leaf_child =
                        @ \/ lookup.c = null_id
                          \/ tree_[0].branch_map_[lookup.c].leaf]
     IN IF next.outcome = "nullptr"
        THEN \* next->sub_entities() through nullptr
             \/ CellsStep(frames, asked, "fault")
             \/ CellsStep(frames, asked, "cells")
             \/ /\ Len(frames) < MaxStk
                /\ CellsStep(Append(frames, null_id), asked, "cells")
        ELSE IF tree_[0].branch_map_[next.branch].sub_entities > 0
             THEN CellsStep(Append(frames, next.branch), asked, "cells")
             ELSE CellsStep(frames, asked, "cells")

\* the end of the loop over the children of c
EndChildren ==
  /\ pc = "cells" /\ lookup.open /\ lookup.i = num_children
  /\ CellsStep(frames, [lookup EXCEPT !.open = FALSE, !.c = null_id], pc)

\* the stack is empty: the function returns (apply_sub_cells after its
\* taskwait)
EndCells ==
  /\ pc = "cells" /\ ~lookup.open /\ frames = <<>>
  /\ CellsStep(frames, lookup, "selected")

NextCells ==
  \/ StartCells
  \/ PopCell
  \/ ChildCell
  \/ EndChildren
  \/ EndCells

SpecCells == InitCells /\ [][NextCells]_vars

(***************************************************************************)
(* The counts and displacements one rank gives to MPI_Alltoallv in the     *)
(* five all-to-all exchanges.  dist holds the rank, the number of elements *)
(* it sends to each peer, the number it receives from each peer (what      *)
(* MPI_Alltoall brought) and the size of an element in bytes; ghosts_data  *)
(* holds the four arrays of the call, in bytes.  A std::vector<int>(size)  *)
(* starts with zeros.                                                      *)
(***************************************************************************)
MaxCount == 1
MaxBytes == 2

RECURSIVE sort_offsets(_, _)
\* mpi_sort_unbalanced: std::partial_sum, then insert(begin(), 0)
sort_offsets(count, i) ==
  IF i = 0 THEN 0 ELSE sort_offsets(count, i - 1) + count[i - 1]

RECURSIVE branches_offsets(_, _)
\* mpi_branches_exchange_useful_positions:
\* if(i < size-1) sendoffsets[i+1] = sendoffsets[i] + sendcount[i]
branches_offsets(count, i) ==
  IF i = 0 THEN 0 ELSE branches_offsets(count, i - 1) + count[i - 1]

RECURSIVE ghosts_offsets(_, _)
\* mpi_compute_ghosts: nsendoffsets[0] = 0;
\* nsendoffsets[i] = nsendholders[i-1] + nsendoffsets[i-1] for i from 1
ghosts_offsets(count, i) ==
  IF i = 0 THEN 0 ELSE count[i - 1] + ghosts_offsets(count, i - 1)

RECURSIVE cells_noffsets(_, _, _)
\* mpi_gather_cells: noffsets[i] = noffsets[i-1] + nsend[rank] for i from 1
cells_noffsets(nsend, rank, i) ==
  IF i = 0 THEN 0 ELSE cells_noffsets(nsend, rank, i - 1) + nsend[rank]

RECURSIVE holders_offsets(_, _)
\* mpi_gather_ghosts_com: if(i > 1) soffsets[i] = soffsets[i-1] + nsendbh[i-1]
holders_offsets(count, i) ==
  IF i > 1 THEN holders_offsets(count, i - 1) + count[i - 1] ELSE 0

\* count[i] *= sizeof(element)
in_bytes(count) == [i \in Ranks |-> count[i] * dist.bytes]

\* a rank sends nothing to itself
NoneToSelf(count) == [count EXCEPT ![dist.rank] = 0]

InitOffsets ==
  /\ pc = "counts"
  /\ size \in 1 .. MaxRanks
  /\ \E rank \in Ranks, bytes \in 1 .. MaxBytes :
       \E sends \in [Ranks -> 0 .. MaxCount],
          recvs \in [Ranks -> 0 .. MaxCount] :
         dist = [rank |-> rank, bytes |-> bytes, sendcount |-> sends,
                 recvcount |-> recvs]
  /\ rbodies = <<>> /\ input = <<>> /\ master_keys = <<>>
  /\ splitters = <<>> /\ nsorts = 0
  /\ StepIdle

Alltoallv(exchange, sendcounts, sdispls, recvcounts, rdispls) ==
  /\ pc = "counts"
  /\ ghosts_data' = [exchange |-> exchange,
                     sendcount |-> sendcounts, sendoffsets |-> sdispls,
                     recvcount |-> recvcounts, recvoffsets |-> rdispls]
  /\ pc' = "offsets"
  /\ UNCHANGED <<size, sortvars, smoothinglength_, localbodies_, tree_,
                 entities_, calls, histvars, poolvars, fmmvars, drivervars>>

\* mpi_sort_unbalanced: the offsets are summed in elements, then the four
\* arrays are put in bytes
SortOffsets ==
  Alltoallv("sort buckets",
            in_bytes(dist.sendcount),
            in_bytes([i \in Ranks |-> sort_offsets(dist.sendcount, i)]),
            in_bytes(dist.recvcount),
            in_bytes([i \in Ranks |-> sort_offsets(dist.recvcount, i)]))

\* mpi_branches_exchange_useful_positions: the counts are put in bytes in
\* the loop that sums the offsets
BranchOffsets ==
  LET sends == in_bytes(NoneToSelf(dist.sendcount))
      recvs == in_bytes(NoneToSelf(dist.recvcount))
  IN Alltoallv("branch summaries",
               sends, [i \in Ranks |-> branches_offsets(sends, i)],
               recvs, [i \in Ranks |-> branches_offsets(recvs, i)])

\* mpi_compute_ghosts: the offsets are summed in elements, then put in bytes
GhostOffsets ==
  LET nsendholders == NoneToSelf(dist.sendcount)
      nrecvholders == NoneToSelf(dist.recvcount)
  IN Alltoallv("ghost bodies",
               in_bytes(nsendholders),
               in_bytes([i \in Ranks |-> ghosts_offsets(nsendholders, i)]),
               in_bytes(nrecvholders),
               in_bytes([i \in Ranks |-> ghosts_offsets(nrecvholders, i)]))

\* mpi_gather_cells: nsend is in bytes; every peer sends back the cells of
\* this rank, nsend[rank] bytes
CellOffsets ==
  LET nsend == in_bytes(dist.sendcount)
  IN Alltoallv("FMM cells",
               nsend, [i \in Ranks |-> soffsets(nsend, i)],
               [i \in Ranks |-> nsend[dist.rank]],
               [i \in Ranks |-> cells_noffsets(nsend, dist.rank, i)])

\* mpi_gather_ghosts_com: the counts are put in bytes in the loop that sums
\* the offsets
HolderOffsets ==
  LET nsendbh == in_bytes(NoneToSelf(dist.sendcount))
      nrecvbh == in_bytes(NoneToSelf(dist.recvcount))
  IN Alltoallv("FMM near-field holders",
               nsendbh, [i \in Ranks |-> holders_offsets(nsendbh, i)],
               nrecvbh, [i \in Ranks |-> holders_offsets(nrecvbh, i)])

NextOffsets ==
  \/ SortOffsets
  \/ BranchOffsets
  \/ GhostOffsets
  \/ CellOffsets
  \/ HolderOffsets

SpecOffsets == InitOffsets /\ [][NextOffsets]_vars

(***************************************************************************)
(* Properties of the tree under insertion                                  *)
(***************************************************************************)
Branches(T) == DOMAIN T.branch_map_

\* the branches whose particle list holds entity e, with the place in the list
HoldersOf(T, e) ==
  {<<b, k>> \in Branches(T) \X (1 .. TreeEntities) :
     k <= Len(T.branch_map_[b].ents) /\ T.branch_map_[b].ents[k] = e}

\* the deepest existing branch on the path of the key of a position
DeepestOnPath(T, p) == find_parent_(T, to_branch_id(T, p, T.max_depth_))

\* C13: after any sequence of inserts, the parent (the key truncated by one
\* level) of every branch of the map other than the root is in the map and
\* is not a leaf.
C13_ParentNotLeaf ==
  pc \in {"tree", "updated", "updated_local", "applied"} =>
    \A b \in Branches(tree_[0]) :
      b # root_id =>
        /\ truncate(b, id_depth(b) - 1) \in Branches(tree_[0])
        /\ ~tree_[0].branch_map_[truncate(b, id_depth(b) - 1)].leaf

\* an insert has refined a branch that a refinement had made
C13_Witness ==
  /\ pc = "tree"
  /\ Len(entities_[0]) = TreeEntities
  /\ \E b \in Branches(tree_[0]) : id_depth(b) >= 2

\* C14: after any sequence of inserts, every inserted entity is in the list
\* of exactly one branch, which is a leaf, is the deepest existing branch on
\* the path of the entity's key and is the branch the entity records; a
\* branch that is not a leaf holds no entity.
C14_EntityPlacement ==
  pc \in {"tree", "updated", "updated_local", "applied"} =>
    /\ \A e \in 1 .. Len(entities_[0]) :
         /\ Cardinality(HoldersOf(tree_[0], e)) = 1
         /\ \A h \in HoldersOf(tree_[0], e) :
              /\ tree_[0].branch_map_[h[1]].leaf
              /\ h[1] = DeepestOnPath(tree_[0], entities_[0][e].coordinates)
              /\ e \in DOMAIN tree_[0].branch_id_
              /\ h[1] = tree_[0].branch_id_[e]
    /\ \A b \in Branches(tree_[0]) :
         ~tree_[0].branch_map_[b].leaf => tree_[0].branch_map_[b].ents = <<>>

\* an insert has moved entities that were in the tree two levels down
C14_Witness ==
  /\ pc = "tree"
  /\ Len(entities_[0]) = TreeEntities
  /\ \E e \in 1 .. (TreeEntities - 1) : id_depth(tree_[0].branch_id_[e]) >= 2
  /\ \E b \in Branches(tree_[0]) :
       ~tree_[0].branch_map_[b].leaf /\ b # root_id

\* the entities a tree holds, each with the branch that holds it
Placement(T) ==
  {<<T.branch_map_[b].ents[k], b>> :
     <<b, k>> \in {<<b, k>> \in Branches(T) \X (1 .. TreeEntities) :
                     k <= Len(T.branch_map_[b].ents)}}

\* C15: insert(p) followed by remove(p) leaves the tree with the branch
\* keys it had before the insert and the other particles in the branches
\* they were in, also when the insert refined a branch.
C15_InsertRemove ==
  (/\ pc = "removed"
   /\ tree_[0].branch_id_[Len(entities_[0])] = null_id) =>
     /\ Branches(tree_[0]) = Branches(snapshot)
     /\ Placement(tree_[0]) = Placement(snapshot)

RECURSIVE LocalSubEntities(_, _, _)
\* the number of local entities held at or below branch b
LocalSubEntities(T, E, b) ==
  IF T.branch_map_[b].leaf
  THEN Cardinality({k \in 1 .. Len(T.branch_map_[b].ents) :
                      is_local(E[T.branch_map_[b].ents[k]])})
  ELSE LocalSubEntities(T, E, child(b, 0)) + LocalSubEntities(T, E, child(b, 1))

\* C16: after update_branches every branch's sub_entities is the number of
\* entities in its sub-tree, after update_branches_local the number of
\* local ones; at the root it is the number of entities (local entities)
\* of the tree.
C16_SubEntities ==
  /\ pc = "updated" =>
       /\ \A b \in Branches(tree_[0]) :
            tree_[0].branch_map_[b].sub_entities = SubEntities(tree_[0], b)
       /\ tree_[0].branch_map_[root_id].sub_entities = Len(entities_[0])
  /\ pc = "updated_local" =>
       /\ \A b \in Branches(tree_[0]) :
            tree_[0].branch_map_[b].sub_entities =
              LocalSubEntities(tree_[0], entities_[0], b)
       /\ tree_[0].branch_map_[root_id].sub_entities =
            Cardinality({e \in 1 .. Len(entities_[0]) : is_local(entities_[0][e])})

\* update_branches_local has run on a refined tree that holds local
\* entities and entities that are not
C16_Witness ==
  /\ pc = "updated_local"
  /\ Len(entities_[0]) = TreeEntities
  /\ ~tree_[0].branch_map_[root_id].leaf
  /\ tree_[0].branch_map_[root_id].sub_entities \in 1 .. (TreeEntities - 1)

(***************************************************************************)
(* Properties of the searches                                              *)
(***************************************************************************)
\* the entities of the tree that satisfy the query
Matching(E, q) ==
  {e \in 1 .. Len(E) :
     IF q.kind = "radius"
     THEN Abs(E[e].coordinates - q.center) <= q.radius
     ELSE q.min <= E[e].coordinates /\ E[e].coordinates <= q.max}

Found(s) == {s[k] : k \in 1 .. Len(s)}

\* the search returned exactly the matching entities, each once
Exact(c) ==
  /\ Found(c.found) = Matching(entities_[0], c.q)
  /\ Len(c.found) = Cardinality(Found(c.found))

\* C17: on a tree whose boxes update_branches has refreshed,
\* find_in_radius_b and find_in_box_b return exactly the entities that
\* satisfy the predicate, each once.
C17_IterativeExact ==
  pc = "searched" =>
    \A k \in 1 .. Len(calls[0]) :
      calls[0][k].op \in {"find_in_radius_b", "find_in_box_b"} => Exact(calls[0][k])

\* C18: find_in_box(min, max) returns exactly the entities of the tree whose
\* coordinates lie in the box, also those outside the sub-tree that
\* find_start_ chooses for the sphere around the box.
C18_BoxExact ==
  pc = "searched" =>
    \A k \in 1 .. Len(calls[0]) :
      calls[0][k].op = "find_in_box" => Exact(calls[0][k])

\* C19: find_in_radius returns the set of entities that find_in_radius_b
\* returns for the same query, which is the set of the entities within the
\* radius of the centre.
C19_SearchesAgree ==
  pc = "searched" =>
    \A k \in 1 .. Len(calls[0]) :
      calls[0][k].op = "find_in_radius" =>
        /\ Found(calls[0][k].found) =
             Found(find_in_radius_b(tree_[0], entities_[0],
                                    calls[0][k].q.center, calls[0][k].q.radius))
        /\ Found(calls[0][k].found) = Matching(entities_[0], calls[0][k].q)

(***************************************************************************)
(* Properties of the traversals with a thread pool                         *)
(***************************************************************************)
\* C20: in every traversal with a thread pool the releases of the
\* semaphore (by the tasks, by the leaves above queue_depth and by the
\* branches left out) never exceed and finally number m = 2^(queue_depth * D),
\* the acquire succeeds only after all of them, and every traversal that
\* was started gets to its end.
C20_SemaphoreBalanced ==
  /\ [](pc = "traversing" => released <= trav.m)
  /\ [](pc = "joined" => released = trav.m /\ tasks = {} /\ sem = 0)
  /\ (pc = "traversing") ~> (pc = "joined")

\* the calling thread of a find_ is through with the tree: leaves above
\* queue_depth or branches left out have released, and tasks are yet to run
C20_Witness ==
  /\ pc = "traversing"
  /\ trav.op = "find_"
  /\ trav.start # root_id
  /\ frames = <<>>
  /\ tasks # {}
  /\ released >= 2
  /\ released + Cardinality(tasks) = trav.m

\* C21: a concurrent find_in_radius / find_in_box returns only after every
\* queued task has appended its hits under the mutex, the tree is not
\* modified during the call, and the entities returned are those of the
\* sequential search for the same query, each once.
C21_ConcurrentFind ==
  /\ [](pc = "joined" =>
          /\ tasks = {}
          /\ trav.mtx = 0
          /\ Range(trav.ents) =
               Range(sequential_find(tree_[0], entities_[0], trav.q))
          /\ Len(trav.ents) =
               Len(sequential_find(tree_[0], entities_[0], trav.q)))
  /\ [](pc = "traversing" =>
          \A task \in tasks : task.st = "locked" => trav.mtx = task.b)
  /\ [][pc = "traversing" => tree_' = tree_ /\ entities_' = entities_]_vars

\* a call with two threads in the pool has returned the hits appended by
\* the tasks of two branches, in another order than the sequential search
C21_Witness ==
  /\ pc = "joined"
  /\ trav.num_threads = 2
  /\ trav.ents # sequential_find(tree_[0], entities_[0], trav.q)
  /\ \E e1, e2 \in Range(trav.ents) :
       /\ tree_[0].branch_id_[e1] # tree_[0].branch_id_[e2]
       /\ id_depth(tree_[0].branch_id_[e1]) >= trav.queue_depth
       /\ id_depth(tree_[0].branch_id_[e2]) >= trav.queue_depth

\* C22: after mpi_exchange_cells every rank holds the same ordered vector
\* of global sinks, the sinks of rank 0 first, then those of rank 1, ...,
\* and on rank r the slice that starts at the sum of the sink counts of the
\* ranks below r is the sequence of sinks r published, in its order.
C22_GlobalSinks ==
  pc = "exchanged" =>
    \A r \in Ranks :
      /\ recvcells[r] = Concat(vcells, size)
      /\ recvcells[r] = recvcells[0]
      /\ SubSeq(recvcells[r], SumLen(vcells, r) + 1,
                SumLen(vcells, r) + Len(vcells[r])) = vcells[r]

\* three ranks have published sinks, one of them more than one
C22_Witness ==
  /\ pc = "exchanged"
  /\ size = 3
  /\ \A r \in Ranks : Len(vcells[r]) >= 1
  /\ \E r \in Ranks : Len(vcells[r]) >= 2

\* the two sequences hold the same elements as often
SameBag(s, t) ==
  \A x \in Range(s) \cup Range(t) :
    Cardinality({k \in 1 .. Len(s) : s[k] = x})
      = Cardinality({k \in 1 .. Len(t) : t[k] = x})

\* the contribution of rank i to the j-th sink of rank r
Contribution(i, r, j) == recvcells[i][SumLen(vcells, r) + j].acc

\* the contributions of the ranks 0 .. i-1 to the j-th sink of rank r,
\* summed
RECURSIVE SumContributions(_, _, _)
SumContributions(i, r, j) ==
  IF i = 0 THEN ZeroAcc
  ELSE LET rest == SumContributions(i - 1, r, j)
           c == Contribution(i - 1, r, j)
       IN [fc |-> rest.fc \o c.fc, dfcdr |-> rest.dfcdr \o c.dfcdr,
           dfcdrdr |-> rest.dfcdrdr \o c.dfcdrdr]

\* C23: in mpi_gather_cells, on every rank r the j-th record of the block
\* received from every sender i refers to the sink (branch id and position)
\* of r's own j-th sink, and after the loop the j-th reduced accumulator is
\* the element-wise sum over all ranks of their contributions to that sink.
C23_GatherReduce ==
  pc = "gathered" =>
    \A r \in Ranks :
      LET ncells == Len(vcells[r])
      IN /\ Len(gathercells[r].buffer) = ncells * size
         /\ gathercells[r].asserts
         /\ \A i \in Ranks, j \in 1 .. ncells :
              /\ gathercells[r].buffer[i * ncells + j].id = vcells[r][j].id
              /\ gathercells[r].buffer[i * ncells + j].position
                   = vcells[r][j].position
              /\ gathercells[r].buffer[i * ncells + j].acc = Contribution(i, r, j)
         /\ \A j \in 1 .. ncells :
              /\ gathercells[r].reduced[j].id = vcells[r][j].id
              /\ SameBag(gathercells[r].reduced[j].acc.fc,
                         SumContributions(size, r, j).fc)
              /\ SameBag(gathercells[r].reduced[j].acc.dfcdr,
                         SumContributions(size, r, j).dfcdr)
              /\ SameBag(gathercells[r].reduced[j].acc.dfcdrdr,
                         SumContributions(size, r, j).dfcdrdr)

\* on one of three ranks the second sink has received contributions of the
\* two other ranks
C23_Witness ==
  /\ pc = "gathered"
  /\ size = 3
  /\ \E r \in Ranks :
       /\ Len(vcells[r]) >= 2
       /\ \A i \in Ranks \ {r} : Contribution(i, r, 2).fc # <<>>
       /\ Len(gathercells[r].reduced[2].acc.fc) >= 2

\* F_i + sum_j J_ij D_j + 1/2 sum_jk H_ijk D_j D_k, the Taylor expansion to
\* the second order with all nine terms of the Hessian
Taylor2(fc, jacobi, hessian, D) ==
  LET Sum3(g(_)) == g(0) + g(1) + g(2)
  IN [i \in Dim3 |->
        LET JTerm(j) == jacobi[i * 3 + j] * D[j]
            HTerm(j) ==
              LET HTermK(k) == hessian[i * 9 + j * 3 + k] * D[j] * D[k]
              IN Sum3(HTermK)
        IN fc[i] + Sum3(JTerm) + Sum3(HTerm) \div 2]

\* C24: for every sink S with reduced accumulators F, J, H and every LOCAL
\* particle p in a leaf of its sub-tree, sink_traversal_c2p sets the
\* gravitational acceleration of p to F_i + sum_j J_ij D_j + 1/2 sum_jk
\* H_ijk D_j D_k with D = p.pos - S.pos, all nine j,k terms contributing.
C24_TaylorExpansion ==
  pc = "c2p" =>
    \A k \in 1 .. Len(c2p.bodies) :
      (c2p.bodies[k].local /\ k < c2p.next) =>
        c2p.grav[k] =
          Taylor2(c2p.fc, c2p.jacobi, c2p.hessian,
                  [i \in Dim3 |->
                     c2p.bodies[k].position[i] - c2p.sinkPosition[i]])

\* C27: a lookup of a branch key that has no branch in the map, by
\* get(branch_id) or by child(b, i), ends in an assertion failure, yields no
\* branch to the caller and leaves the tree unchanged.
C27_MissingKeyAsserts ==
  (pc = "looked" /\ lookup.key \notin DOMAIN lookup.before.branch_map_) =>
    /\ lookup.result.outcome = "assert"
    /\ lookup.result.branch = null_id
    /\ tree_[0] = lookup.before

\* the entities of the sub-tree of branch b
EntitiesBelow(T, b) ==
  {e \in DOMAIN T.branch_id_ :
     /\ T.branch_id_[e] # null_id
     /\ id_depth(T.branch_id_[e]) >= id_depth(b)
     /\ truncate(T.branch_id_[e], id_depth(b)) = b}

\* C28: after update_branches(epsilon) the box [bmin, bmax] of every branch
\* that has an entity in its sub-tree contains the coordinates of every
\* entity of the sub-tree enlarged by epsilon, whatever the masses, and the
\* box of a child that has entities lies within the box of its parent.
C28_BoxContainsSubtree ==
  pc = "updated" =>
    \A b \in Branches(tree_[0]) :
      /\ \A e \in EntitiesBelow(tree_[0], b) :
           /\ tree_[0].branch_map_[b].bmin <= entities_[0][e].coordinates - epsilon_
           /\ entities_[0][e].coordinates + epsilon_ <= tree_[0].branch_map_[b].bmax
      /\ (b # root_id /\ EntitiesBelow(tree_[0], b) # {}) =>
           /\ tree_[0].branch_map_[pop(b)].bmin <= tree_[0].branch_map_[b].bmin
           /\ tree_[0].branch_map_[b].bmax <= tree_[0].branch_map_[pop(b)].bmax

\* no element occurs twice in the sequence s
NoDuplicate(s) == \A i, j \in DOMAIN s : i # j => s[i] # s[j]

\* C29: the neighbor list handed to the callable for a particle never holds
\* the same particle twice: the list built by sub_cells_inter holds each
\* leaf at most once, and each particle is in exactly one leaf.
C29_NoDuplicateNeighbors ==
  pc = "applied" =>
    /\ \A k \in 1 .. Len(calls[0]) : NoDuplicate(calls[0][k].neighbors)
    /\ \A b \in Branches(tree_[0]) :
         LET inter_list == sub_cells_inter(tree_[0], b, ncritical32)
         IN /\ NoDuplicate(inter_list)
            /\ \A k \in 1 .. Len(inter_list) :
                 tree_[0].branch_map_[inter_list[k]].leaf
    /\ \A e \in 1 .. Len(entities_[0]) :
         Cardinality({b \in Branches(tree_[0]) :
                        /\ tree_[0].branch_map_[b].leaf
                        /\ \E k \in 1 .. Len(tree_[0].branch_map_[b].ents) :
                             tree_[0].branch_map_[b].ents[k] = e}) = 1

\* a callable got neighbors out of two leaves of the interaction list
C29_Witness ==
  /\ pc = "applied"
  /\ \E k \in 1 .. Len(calls[0]) :
       \E i, j \in 1 .. Len(calls[0][k].neighbors) :
         tree_[0].branch_id_[calls[0][k].neighbors[i]]
           # tree_[0].branch_id_[calls[0][k].neighbors[j]]

\* tree_traversal_c2c returns at once on source b: it has no mass or its box
\* lies in the box of the sink
Skipped(sink, T, b) ==
  \/ T.branch_map_[b].mass = 0
  \/ /\ sink.bmin <= T.branch_map_[b].bmin
     /\ sink.bmax >= T.branch_map_[b].bmax

\* the sources taken for a sink on rank r: the branches that pass the MAC
\* below opened branches only, and the local bodies outside the box of the
\* sink in the opened leaves
TakenSources(r, sink) ==
  LET T == tree_[r]
      Opened(b) == ~Skipped(sink, T, b) /\ ~MAC(sink, T, b, fmm.macangle)
      Above(b) == {truncate(b, d) : d \in 0 .. (id_depth(b) - 1)}
  IN {[rank |-> r, kind |-> "cell", id |-> b] :
        b \in {c \in DOMAIN T.branch_map_ :
                 /\ \A a \in Above(c) : Opened(a)
                 /\ ~Skipped(sink, T, c)
                 /\ MAC(sink, T, c, fmm.macangle)}}
     \cup
     {[rank |-> r, kind |-> "body", id |-> e] :
        e \in {x \in DOMAIN T.branch_id_ :
                 /\ \A a \in Above(T.branch_id_[x]) \cup {T.branch_id_[x]} :
                      Opened(a)
                 /\ entities_[r][x].locality = "LOCAL"
                 /\ ~(/\ entities_[r][x].coordinates <= sink.bmax
                      /\ entities_[r][x].coordinates >= sink.bmin)}}

\* the accumulator holds the term of every source of S once and nothing else
IsSumOver(accumulator, S) ==
  /\ {accumulator[k] : k \in DOMAIN accumulator} = S
  /\ Len(accumulator) = Cardinality(S)

\* C30: after mpi_compute_fmm the force, the Jacobian and the Hessian
\* accumulator of every sink start from zero and are the sum of the
\* contributions of every source taken for the sink (each branch accepted by
\* the MAC and each body taken one by one); the Hessian accumulates over all
\* the sources as the force and the Jacobian do.
C30_AccumulatorsSum ==
  pc = "computed" =>
    \A r \in Ranks :
      \A p \in 1 .. Len(recvcells[r]) :
        /\ IsSumOver(recvcells[r][p].acc.fc, TakenSources(r, recvcells[r][p]))
        /\ IsSumOver(recvcells[r][p].acc.dfcdr, TakenSources(r, recvcells[r][p]))
        /\ IsSumOver(recvcells[r][p].acc.dfcdrdr, TakenSources(r, recvcells[r][p]))

\* the term of the source holds the mass of entity e of rank i
Covers(source, i, e) ==
  /\ source.rank = i
  /\ \/ source.kind = "body" /\ source.id = e
     \/ source.kind = "cell" /\ e \in EntitiesBelow(tree_[i], source.id)

\* how often entity e of rank i is in the reduced force of the j-th sink of
\* rank r, and how often in the bodies of its direct sum
FarCount(r, j, i, e) ==
  Cardinality({k \in 1 .. Len(gathercells[r].reduced[j].acc.fc) :
                 Covers(gathercells[r].reduced[j].acc.fc[k], i, e)})

NearCount(r, j, i, e) ==
  Cardinality({k \in 1 .. Len(gathercells[r].subparts[j]) :
                 i = r /\ gathercells[r].subparts[j][k] = e})

C32_SinksPartition ==
  pc = "gathered" =>
    \A r \in Ranks :
      /\ \A j, k \in 1 .. Len(vcells[r]) :
           j # k =>
             /\ vcells[r][j].id # vcells[r][k].id
             /\ id_depth(vcells[r][j].id) <= id_depth(vcells[r][k].id) =>
                  truncate(vcells[r][k].id, id_depth(vcells[r][j].id))
                    # vcells[r][j].id
      /\ \A e \in 1 .. Len(entities_[r]) :
           entities_[r][e].locality = "LOCAL" =>
             /\ Cardinality({j \in 1 .. Len(vcells[r]) :
                   e \in EntitiesBelow(tree_[r], vcells[r][j].id)}) = 1
             /\ Cardinality({jk \in {x \in (1 .. Len(vcells[r])) \X (1 .. FmmBodies) :
                                       x[2] <= Len(gathercells[r].subparts[x[1]])} :
                               gathercells[r].subparts[jk[1]][jk[2]] = e}) = 1

\* the invocation task k is in
CurrentCall(k) == omp.tasks[k].calls[omp.tasks[k].next]

\* C34: within one kernel pass run as concurrent tasks, a callable writes
\* attributes of its source particle only, no attribute the pass writes is
\* read of a neighbor in the same pass, and no two tasks access the same
\* attribute of the same particle at the same time with one of them writing.
C34_NoConflict ==
  pc = "pass" =>
    /\ source_writes(omp.callable) \cap neighbor_reads(omp.callable) = {}
    /\ \A k \in DOMAIN omp.tasks :
         omp.tasks[k].running =>
           /\ \A w \in Writes(omp.callable, CurrentCall(k)) :
                w[1] = CurrentCall(k).ent
           /\ \A j \in DOMAIN omp.tasks \ {k} :
                omp.tasks[j].running =>
                  Writes(omp.callable, CurrentCall(k))
                    \cap (Reads(omp.callable, CurrentCall(j))
                            \cup Writes(omp.callable, CurrentCall(j))) = {}

\* two tasks are in the callable at the same time, and the source of the
\* one is a neighbor of the source of the other
C34_Witness ==
  /\ pc = "pass"
  /\ omp.callable = "compute_hydro_acceleration"
  /\ \E k, j \in DOMAIN omp.tasks :
       /\ k # j
       /\ omp.tasks[k].running /\ omp.tasks[j].running
       /\ CurrentCall(j).ent \in Range(CurrentCall(k).neighbors)
       /\ CurrentCall(k).ent # CurrentCall(j).ent

\* the entities of the tree are all put in it and no call is under way
InsertDone == frames = <<>> /\ Inserted = DOMAIN entities_[0]

\* C35: every insert terminates, the recursion insert -> refine_ -> insert is
\* bounded: refine_ is never called for a branch of the depth of the deepest
\* key or below, whatever the number of particles of one position
C35_InsertTerminates ==
  pc = "insert" =>
    \A f \in DOMAIN frames :
      frames[f].op = "refine_" => frames[f].max_depth <= MaxBits

\* with no more particles of one position than a leaf holds the calls
\* return, below the depth of the deepest key, with the tree of insert
C35_SeparableTerminates ==
  (/\ pc = "insert"
   /\ \A e \in DOMAIN entities_[0] :
        Cardinality({o \in DOMAIN entities_[0] :
                       entities_[0][o].coordinates =
                         entities_[0][e].coordinates}) <= MaxLeaf)
    => /\ C35_InsertTerminates
       /\ InsertDone =>
            tree_[0] = InsertUpTo(NewTree(0, TreeRange), entities_[0],
                                  Len(entities_[0]))

\* C36: on a tree that holds no particle apply_sub_cells, find_sub_cells and
\* find_sub_cells_mass end, make no task (invoke no callable), select no
\* cell and ask for no child of a leaf
C36_EmptyTreeSelectsNothing ==
  (pc \in {"cells", "selected", "fault"} /\ entities_[0] = <<>>) =>
    /\ pc # "fault"
    /\ lookup.search_list = <<>>
    /\ ~lookup.leaf_child

\* on a tree with particles no child of a leaf is asked for, and
\* apply_sub_cells makes its tasks for the branches of work_cells
C36_WithParticles ==
  (pc \in {"cells", "selected", "fault"} /\ entities_[0] # <<>>) =>
    /\ pc # "fault"
    /\ ~lookup.leaf_child
    /\ (pc = "selected" /\ lookup.f = "apply_sub_cells") =>
         lookup.search_list = work_cells(tree_[0], root_id, lookup.criterion)

(***************************************************************************)
(* Properties of the iteration and of the kernel evaluator.                *)
(***************************************************************************)
\* the body of the particle of global id g
BodyOf(g) == CHOOSE b \in AllBodies : b.id = g

\* C1: the neighbor list apply_in_smoothinglength hands to the callable for
\* a local particle p holds every particle q of any rank with
\* dist(p, q) < 2 * max(h_p, h_q), also when q sits in another leaf.
C1_NeighborsComplete ==
  pc = "applied" =>
    \A r \in Ranks : \A k \in 1 .. Len(calls[r]) :
      \A q \in AllBodies :
        Abs(entities_[r][calls[r][k].ent].coordinates - q.coordinates)
            < 2 * smoothinglength_
          => \E n \in 1 .. Len(calls[r][k].neighbors) :
               entities_[r][calls[r][k].neighbors[n]].global_id = q.id

\* C2: one call of apply_sub_cells invokes the callable exactly once for
\* every LOCAL entity of the tree, whatever its mass and its leaf, and
\* never for an entity that is not local.
C2_OncePerLocal ==
  pc = "applied" =>
    \A r \in Ranks : \A e \in 1 .. Len(entities_[r]) :
      Cardinality({k \in 1 .. Len(calls[r]) : calls[r][k].ent = e})
        = IF is_local(entities_[r][e]) THEN 1 ELSE 0

\* C3: after the branch and ghost exchange and the refresh, every particle
\* q of another rank within 2 h of a local particle p of rank r is in the
\* tree of r as a non-local entity linked to a received body with the full
\* state of q.
C3_HaloComplete ==
  pc = "refreshed" =>
    \A r \in Ranks : \A j \in 1 .. Len(localbodies_[r]) :
      \A q \in AllBodies :
        (/\ q \notin Range(localbodies_[r])
         /\ Abs(localbodies_[r][j].coordinates - q.coordinates)
              <= 2 * smoothinglength_)
          => \E e \in 1 .. Len(entities_[r]) :
               /\ entities_[r][e].global_id = q.id
               /\ ~is_local(entities_[r][e])
               /\ entities_[r][e].body # 0
               /\ ghosts_data[r].recvbodies[entities_[r][e].body] = q

\* C4: after mpi_refresh_ghosts every holder of totalrecvholders is linked
\* to a received body that has the state of the particle the holder stands
\* for, also when several ghosts share a key or a position.
C4_GhostFidelity ==
  pc = "refreshed" =>
    \A r \in Ranks : \A k \in 1 .. Len(ghosts_data[r].totalrecvholders) :
      LET bh == entities_[r][ghosts_data[r].totalrecvholders[k]]
      IN /\ bh.body # 0
         /\ ghosts_data[r].recvbodies[bh.body] = BodyOf(bh.global_id)

\* C5: after mpi_compute_ghosts, the particles rank i schedules to send to
\* rank j are exactly those rank j schedules to receive from rank i, each
\* once, so the send count of i for j equals the receive count of j from i.
C5_GhostSymmetry ==
  pc = "ghosts" =>
    \A i, j \in Ranks : i # j =>
      /\ {entities_[i][e].global_id : e \in ghosts_data[i].sendholders[j]}
           = {entities_[j][e].global_id :
                e \in {h \in Range(ghosts_data[j].totalrecvholders) :
                         entities_[j][h].owner = i}}
      /\ ghosts_data[i].nsendholders[j] = ghosts_data[j].nrecvholders[i]

\* C6: after the branch exchange, every particle of a rank i inside the
\* padded box of another rank j is in the tree of j exactly once, as a
\* NONLOCAL entity of owner i with the same position and mass, and the tree
\* of j holds no other entity attributed to i.
C6_BranchCompleteness ==
  pc = "exchanged" =>
    \A i, j \in Ranks : i # j =>
      LET inbox == {b \in Range(localbodies_[i]) :
                      within_box(b.coordinates, ranges(j)[1], ranges(j)[2])}
          from_i == {e \in 1 .. Len(entities_[j]) : entities_[j][e].owner = i}
      IN /\ \A b \in inbox :
              Cardinality({e \in from_i :
                             /\ entities_[j][e].global_id = b.id
                             /\ entities_[j][e].locality = "NONLOCAL"
                             /\ entities_[j][e].coordinates = b.coordinates
                             /\ entities_[j][e].mass = b.mass}) = 1
         /\ \A e \in from_i : \E b \in inbox : entities_[j][e].global_id = b.id

\* the first position of the phase name in the log, 0 when it is not there
FirstOf(log, name) ==
  IF \E k \in 1 .. Len(log) : log[k] = name
  THEN SetMin({k \in 1 .. Len(log) : log[k] = name}) ELSE 0

\* the last position of the phase name in the log, 0 when it is not there
LastOf(log, name) ==
  IF \E k \in 1 .. Len(log) : log[k] = name
  THEN SetMax({k \in 1 .. Len(log) : log[k] = name}) ELSE 0

\* in the log the phase a, if there, comes after the phase b
After(log, a, b) ==
  FirstOf(log, a) # 0 => (FirstOf(log, b) # 0 /\ FirstOf(log, b) < FirstOf(log, a))

\* C25: in every simulation step the phases run in the order distributed
\* sort, local tree build, branch exchange, COM refresh, ghost computation
\* and first refresh, kernel physics passes; and every kernel physics pass
\* (apply_in_smoothinglength) is followed by a ghost refresh before the
\* next kernel physics pass starts.
C25_PhaseOrder ==
  /\ After(driver.log, "tree", "sort")
  /\ After(driver.log, "branches", "tree")
  /\ FirstOf(driver.log, "ghosts") # 0 =>
       /\ FirstOf(driver.log, "branches") # 0
       /\ FirstOf(driver.log, "branches") < LastOf(driver.log, "COM")
       /\ LastOf(driver.log, "COM") < FirstOf(driver.log, "ghosts")
  /\ After(driver.log, "refresh", "ghosts")
  /\ After(driver.log, "kernel", "refresh")
  /\ \A k \in 1 .. (Len(driver.log) - 1) :
       ~(driver.log[k] = "kernel" /\ driver.log[k + 1] = "kernel")

\* C26: every write of physics::dt by set_adaptive_timestep, that of the
\* decreasing branch and that of the doubling branch, happens inside the
\* critical section: a thread that writes dt holds the critical section, no
\* two threads write dt at the same time, and no thread reads dt while
\* another thread writes it.
C26_WritesInCritical ==
  pc = "omp" =>
    \A t \in OmpThreads :
      Writing(t) =>
        /\ omp.critical = t
        /\ omp.th[t].pc \in critical_region
        /\ \A u \in OmpThreads \ {t} : ~Writing(u) /\ ~Reading(u)

\* C33: mpi_refresh_ghosts leaves the trees, the local bodies, the send
\* holders, the list of receive holders and the counts unchanged; of the
\* entities it changes the body link of the receive holders only; it writes
\* as many bodies into the send buffer as mpi_compute_ghosts sized it for,
\* and the receive buffer keeps the size mpi_compute_ghosts gave it.
C33_RefreshFrame ==
  [][(pc = "ghosts" /\ pc' = "refreshed") =>
       /\ tree_' = tree_
       /\ localbodies_' = localbodies_
       /\ \A r \in Ranks :
            /\ ghosts_data'[r].sendholders = ghosts_data[r].sendholders
            /\ ghosts_data'[r].nsendholders = ghosts_data[r].nsendholders
            /\ ghosts_data'[r].nrecvholders = ghosts_data[r].nrecvholders
            /\ ghosts_data'[r].totalrecvholders = ghosts_data[r].totalrecvholders
            /\ Len(entities_'[r]) = Len(entities_[r])
            /\ \A e \in 1 .. Len(entities_[r]) :
                 /\ [entities_'[r][e] EXCEPT !.body = entities_[r][e].body]
                      = entities_[r][e]
                 /\ e \notin Range(ghosts_data[r].totalrecvholders) =>
                      entities_'[r][e] = entities_[r][e]
            /\ SeqSum([i \in 1 .. size |-> Len(sendbodies(r, i - 1))])
                 = SeqSum([i \in 1 .. size |-> ghosts_data[r].nsendholders[i - 1]])
            /\ Len(ghosts_data'[r].recvbodies)
                 = SeqSum([i \in 1 .. size |-> ghosts_data[r].nrecvholders[i - 1]])
     ]_vars

\* a refresh has linked two receive holders of a rank that also holds
\* local entities
C33_Witness ==
  /\ pc = "refreshed"
  /\ \E r \in Ranks :
       /\ Len(ghosts_data[r].totalrecvholders) >= 2
       /\ Len(ghosts_data[r].recvbodies) >= 2
       /\ \E e \in 1 .. Len(entities_[r]) : is_local(entities_[r][e])
       /\ \E i \in Ranks : ghosts_data[r].sendholders[i] # {}

(***************************************************************************)
(* The sort called again: update_iteration sorts the bodies at every       *)
(* iteration, so the sort runs on what an earlier call left on the ranks.  *)
(***************************************************************************)
MaxSorts == 2

SortAgain ==
  /\ pc \in {"qsorted", "done"}
  /\ nsorts < MaxSorts
  /\ nsorts' = nsorts + 1
  /\ input' = rbodies
  /\ master_keys' = <<>>
  /\ splitters' = <<>>
  /\ pc' = "sort"
  /\ UNCHANGED <<size, rbodies, dist>>
  /\ UNCHANGED <<stepvars, histvars, fmmvars, drivervars, poolvars>>

NextResort ==
  \/ NextSort
  \/ SortAgain

SpecResort == InitSort /\ [][NextResort]_vars

AllSameKey ==
  \A r, s \in Ranks : \A a \in Held(input, r), b \in Held(input, s) : a.key = b.key

\* C11: when all particles have the same key, the sort leaves the ranks with
\* balanced counts (no rank ends with fewer than the whole part
\* NBodies / size of the particles) and each rank's particles ordered by id.
C11_DegenerateBalanced ==
  (AllSameKey /\ pc = "done") =>
     /\ \A r \in Ranks : Len(rbodies[r]) >= NBodies \div size
     /\ \A r \in Ranks : \A i, j \in 1 .. Len(rbodies[r]) :
          i < j => rbodies[r][i].id < rbodies[r][j].id

\* C12: the sort applied to its own output leaves every rank with the
\* sequence of particles it had (same particles, same order, same rank).
C12_Idempotent ==
  (nsorts = MaxSorts /\ pc = "qsorted") => rbodies = input

\* the sample keys the ranks send to rank 0
ReceivedSamples ==
  UNION {{keys_sample(rbodies[r])[j] : j \in 1 .. nsample(rbodies[r])} :
           r \in Ranks}

\* C37: every splitter rank 0 broadcasts is a sample key received from some
\* rank, and the splitters are non-decreasing, also when ranks send fewer
\* samples than the sample budget of a rank
C37_SplittersAreSamples ==
  pc = "bucket" =>
    /\ \A i \in 0 .. (size - 2) : splitters[i] \in ReceivedSamples
    /\ \A i, j \in 0 .. (size - 2) : i <= j => splitters[i] <= splitters[j]

\* the same with every rank holding a body, and no more than its budget
C37_FullSamples ==
  (/\ pc = "bucket"
   /\ \A r \in Ranks : Len(rbodies[r]) \in 1 .. (noct \div KeyBytes))
    => /\ \A i \in 0 .. (size - 2) : splitters[i] \in ReceivedSamples
       /\ \A i, j \in 0 .. (size - 2) : i <= j => splitters[i] <= splitters[j]

\* the splitters are non-decreasing
C37_SplittersOrdered ==
  pc = "bucket" =>
    \A i, j \in 0 .. (size - 2) : i <= j => splitters[i] <= splitters[j]


\* C38: the sort completes normally when a rank starts with no particle: the
\* divisor of its sample stride rbodies.size()/nsample is not zero and the
\* process is not killed
C38_EmptyRankCompletes ==
  /\ pc = "sample" => \A r \in Ranks : nsample(rbodies[r]) # 0
  /\ pc # "abort"

\* the displacements of the call are the sums of the counts before them
PrefixSums ==
  \A i \in Ranks :
    /\ ghosts_data.sendoffsets[i] = PartialSum(ghosts_data.sendcount, i)
    /\ ghosts_data.recvoffsets[i] = PartialSum(ghosts_data.recvcount, i)

\* C39: in every all-to-all exchange of the core the send displacement and
\* the receive displacement for peer i are the sums of the counts for the
\* peers 0..i-1: the segments are contiguous and do not overlap
C39_Displacements == pc = "offsets" => PrefixSums

\* the four exchanges other than that of the near-field holders
C39_OtherExchanges ==
  (pc = "offsets" /\ ghosts_data.exchange # "FMM near-field holders")
    => PrefixSums

====
